---- MODULE Spec2Model ----
(***************************************************************************)
(* Verification model of the MSF equity-research terminal.                 *)
(*                                                                         *)
(* Four parts of the program are modelled, each with its own               *)
(* specification over the shared variables:                                *)
(*   SpecEngine    the signal table of computeAll and the two blended      *)
(*                 valuations built on it (dashboard summary, football     *)
(*                 field);                                                 *)
(*   SpecTerminal  the Ask-AI terminal's submit handler and its request;   *)
(*   SpecScenario  the scenario state container;                           *)
(*   SpecFetch     the per-ticker page route and the fetchConfig           *)
(*                 orchestrator with its fetchers.                         *)
(***************************************************************************)
EXTENDS Integers, Sequences, FiniteSets, TLC

VARIABLES
    \* ---- valuation engine -------------------------------------------
    signalValues,   \* computeAll: method -> per-share value (a JS number)
    current_price,  \* Baseline.current_price
    computed,       \* the part of ComputedValuations built by lines 422-470
    summaryData,    \* DashboardInner's blended summary
    footballField,  \* FootballFieldTab's blended valuation
    \* ---- finance terminal -------------------------------------------
    history,        \* HistoryEntry[]
    input,          \* the text of the input box
    loading,        \* a request is pending
    cmdHistory,     \* submitted commands, newest first
    cmdIndex,       \* position of the arrow-key navigation, -1 = none
    uidCounter,     \* the module-level _id behind uid()
    requests,       \* the assistant requests issued so far, in order
    submitLog,      \* the last call of the submit handler
    \* ---- scenario state container -----------------------------------
    initial,        \* ScenarioProvider's initial prop (config.default_assumptions)
    assumptions,    \* the Assumptions state
    lastOp,         \* the last mutation of the container
    \* ---- config orchestrator and ticker page ---------------------------
    fetchRun,       \* fetchConfig / fetchLiveConfig in progress
    fetchResult,    \* how fetchConfig completed
    pageView,       \* what the ticker page rendered
    \* ---- landing page upload, saved profiles, ticker page client -------
    uploadPanel,    \* UploadConfigSection's error, fileName and loading
    readers,        \* the files whose FileReader has not fired yet
    localStorage,   \* msf_config_<ticker> items and the msf_profiles index
    clock,          \* the time new Date() reads
    route,          \* the last router.push and the file that caused it
    tickerPage,     \* the ticker page the route leads to
    uploadLog,      \* the last event of the upload panel
    \* ---- AI-assistant endpoint ------------------------------------------
    askRoute,       \* POST /api/ask: the credential and one entry per request
    \* ---- filing-facts helpers --------------------------------------------
    xbrlIn,         \* the arguments: unit entries, and the us-gaap concepts
    xbrlOut,        \* the results of pickAnnual and firstConcept
    \* ---- valuation functions called on their own ------------------------
    calcIn,         \* the arguments of assignSignal, computeWACC, computeJustifiedPE
    calcOut,        \* their results
    \* ---- projection and model pipeline ----------------------------------
    valIn,          \* a Baseline, an Assumptions object, two costs of equity
    valOut,         \* the schedule, the pro-forma rows and the model values
    \* ---- news tagging ----------------------------------------------------
    newsText,       \* the text handed to sentiment
    newsSentiment   \* its result, "none" before the call

engineVars == <<signalValues, current_price, computed, summaryData, footballField>>

terminalVars ==
    <<history, input, loading, cmdHistory, cmdIndex, uidCounter, requests, submitLog>>

scenarioVars == <<initial, assumptions, lastOp>>

fetchVars == <<fetchRun, fetchResult, pageView>>

uploadVars == <<uploadPanel, readers, localStorage, clock, route, tickerPage,
               uploadLog>>

askVars == <<askRoute>>

xbrlVars == <<xbrlIn, xbrlOut>>

calcVars == <<calcIn, calcOut>>

valVars == <<valIn, valOut>>

newsVars == <<newsText, newsSentiment>>

vars == <<engineVars, terminalVars, scenarioVars, fetchVars, uploadVars, askVars, xbrlVars, calcVars, valVars, newsVars>>

(***************************************************************************)
(* JavaScript numbers.  A number is finite (an integer here: per-share     *)
(* values are taken in whole currency units) or one of NaN, +Infinity,     *)
(* -Infinity.  [fin |-> FALSE, v |-> 0] is NaN, v = 1 / -1 the infinities. *)
(***************************************************************************)
Fin(n) == [fin |-> TRUE, v |-> n]
NaN == [fin |-> FALSE, v |-> 0]
PosInf == [fin |-> FALSE, v |-> 1]
NegInf == [fin |-> FALSE, v |-> -1]

IsNaN(a) == ~a.fin /\ a.v = 0
isFinite(a) == a.fin

\* a > b as JavaScript evaluates it: false when either side is NaN.
JsGt(a, b) ==
    /\ ~IsNaN(a)
    /\ ~IsNaN(b)
    /\ IF a.fin /\ b.fin THEN a.v > b.v
       ELSE IF a.fin THEN b.v = -1
       ELSE IF b.fin THEN a.v = 1
       ELSE a.v > b.v

JsLt(a, b) == JsGt(b, a)

\* a <= b
JsLe(a, b) == ~IsNaN(a) /\ ~IsNaN(b) /\ ~JsGt(a, b)

\* !a for a number: 0 and NaN are falsy
Falsy(a) == IsNaN(a) \/ a = Fin(0)

\* a + b
JsAdd(a, b) ==
    IF a.fin /\ b.fin THEN Fin(a.v + b.v)
    ELSE IF IsNaN(a) \/ IsNaN(b) THEN NaN
    ELSE IF a.fin THEN b
    ELSE IF b.fin THEN a
    ELSE IF a.v = b.v THEN a ELSE NaN

\* a * k for a finite integer k
JsTimes(a, k) ==
    IF a.fin THEN Fin(a.v * k)
    ELSE IF IsNaN(a) \/ k = 0 THEN NaN
    ELSE IF k > 0 THEN a
    ELSE [fin |-> FALSE, v |-> -a.v]

\* n / d rounded to the nearest integer, halves away from zero (toFixed)
RoundDiv(n, d) ==
    IF n >= 0 THEN (2 * n + d) \div (2 * d)
    ELSE -((2 * (-n) + d) \div (2 * d))

(***************************************************************************)
(* The fourteen models, in the key order of computeAll's signalValues.     *)
(***************************************************************************)
METHODS ==
    << "FCFF (DCF)", "FCFE (DCF)", "Residual Income", "DDM (2-Stage)",
       "H-Model DDM", "EBITDA Multiple", "Revenue Multiple", "P/E Multiple",
       "Justified P/E", "Justified P/B", "PEG", "P/B", "P/CF", "SOTP" >>

MethodSet == {METHODS[i] : i \in 1..Len(METHODS)}

\* the binary exponent of a positive integer: 2^e <= n < 2^(e+1)
RECURSIVE Exponent(_)
Exponent(n) == IF n < 2 THEN 0 ELSE 1 + Exponent(n \div 2)

RECURSIVE Pow2(_)
Pow2(e) == IF e = 0 THEN 1 ELSE 2 * Pow2(e - 1)

(***************************************************************************)
(* market * 1.15 and market * 0.85 are products of doubles.  The literal   *)
(* 1.15 is the double 23/20 - (2/5) * 2^-52 and 0.85 is the double         *)
(* 17/20 - (1/10) * 2^-52, so for an integer m the exact product lies      *)
(* below 23m/20 by (2/5) m 2^-52 and below 17m/20 by (1/10) m 2^-52, and   *)
(* is then rounded to the nearest double (ties to even).  Against an       *)
(* integer x the rounding matters only when 23m/20 (17m/20) is itself an   *)
(* integer a: with 2^e <= a < 2^(e+1) the doubles next to a are 2^(e-52)   *)
(* apart, the product is (2/5) m / 2^e of that spacing below a, and it     *)
(* rounds to the double below a when that exceeds one half, to a itself    *)
(* otherwise (a has an even significand, so a tie goes to a).  For 0.85    *)
(* the fraction is (1/10) m / 2^e < 1/4, so the product always rounds to a.*)
(***************************************************************************)
RoundsBelow115(m) == 4 * m > 5 * Pow2(Exponent((23 * m) \div 20))

\* x > m * 1.15 for integers x and m > 0
GtTimes115(x, m) ==
    \/ 20 * x > 23 * m
    \/ 20 * x = 23 * m /\ RoundsBelow115(m)

\* x < m * 0.85 for integers x and m > 0
LtTimes085(x, m) == 20 * x < 17 * m

\* assignSignal(intrinsic, market); with an infinite operand only the
\* sign of the product matters.
assignSignal(intrinsic, market) ==
    IF Falsy(market) \/ JsLe(market, Fin(0)) THEN "N/A"
    ELSE IF intrinsic.fin /\ market.fin
         THEN IF GtTimes115(intrinsic.v, market.v) THEN "BUY"
              ELSE IF LtTimes085(intrinsic.v, market.v) THEN "SELL"
              ELSE "HOLD"
    ELSE IF JsGt(intrinsic, JsTimes(market, 115)) THEN "BUY"
    ELSE IF JsLt(intrinsic, JsTimes(market, 85)) THEN "SELL"
    ELSE "HOLD"

\* The filter of the signal table and of the football field: v > 0.
PositiveAsNonZero(v) == v # Fin(0)

Positive(v) == JsGt(v, Fin(0))

\* vsMarket: ((v / price) - 1) * 100 with one decimal, or "N/A".
\* The percentage is kept in tenths of a percent.
vsMarket(v, price) ==
    IF JsGt(price, Fin(0))
    THEN [na |-> FALSE,
          pct |-> IF v.fin /\ price.fin
                  THEN Fin(RoundDiv(1000 * (v.v - price.v), price.v))
                  ELSE IF price.fin THEN v ELSE NaN]
    ELSE [na |-> TRUE, pct |-> NaN]

\* Object.entries(signalValues).filter(([, v]) => v > 0).map(...)
RECURSIVE SignalRowsFrom(_, _, _)
SignalRowsFrom(i, values, price) ==
    IF i > Len(METHODS) THEN << >>
    ELSE LET m == METHODS[i]
             v == values[m]
             rest == SignalRowsFrom(i + 1, values, price)
         IN IF Positive(v)
            THEN << [method |-> m,
                     intrinsicValue |-> v,
                     vsMarket |-> vsMarket(v, price),
                     signal |-> assignSignal(v, price)] >> \o rest
            ELSE rest

SignalRows(values, price) == SignalRowsFrom(1, values, price)

(***************************************************************************)
(* counts: a JS object keyed by signal.  Its entries keep insertion order, *)
(* so it is a sequence of [signal, n] in order of first occurrence.        *)
(***************************************************************************)
HasKey(counts, k) == \E i \in 1..Len(counts) : counts[i].signal = k

Get(counts, k) ==
    IF HasKey(counts, k)
    THEN (CHOOSE e \in {counts[i] : i \in 1..Len(counts)} : e.signal = k).n
    ELSE 0

\* acc[r.signal] = (acc[r.signal] || 0) + 1
Increment(counts, k) ==
    IF HasKey(counts, k)
    THEN [i \in 1..Len(counts) |->
             IF counts[i].signal = k
             THEN [signal |-> k, n |-> counts[i].n + 1]
             ELSE counts[i]]
    ELSE Append(counts, [signal |-> k, n |-> 1])

\* if (r.signal !== "N/A")
Votes(signal) == signal # "N/A"

RECURSIVE CountsFrom(_, _, _)
CountsFrom(i, rows, acc) ==
    IF i > Len(rows) THEN acc
    ELSE CountsFrom(i + 1, rows,
                    IF Votes(rows[i].signal)
                    THEN Increment(acc, rows[i].signal)
                    ELSE acc)

Counts(rows) == CountsFrom(1, rows, << >>)

\* Array.prototype.sort((a, b) => b[1] - a[1]): a stable sort, descending
\* by count.  Insert(e, s) puts e before the first element
\* with a smaller count, so equal counts keep their order.
RECURSIVE Insert(_, _)
Insert(e, s) ==
    IF s = << >> THEN << e >>
    ELSE IF e.n - s[1].n > 0 THEN << e >> \o s
    ELSE << s[1] >> \o Insert(e, Tail(s))

RECURSIVE SortByCountDesc(_)
SortByCountDesc(s) ==
    IF s = << >> THEN << >>
    ELSE LET n == Len(s)
         IN Insert(s[n], SortByCountDesc(SubSeq(s, 1, n - 1)))

FinalSignalAscending(counts) ==
    IF counts = << >> THEN "HOLD"
    ELSE SortByCountDesc(counts)[Len(counts)].signal

\* Object.entries(counts).sort(...)[0]?.[0] ?? "HOLD"
FinalSignal(counts) ==
    IF counts = << >> THEN "HOLD"
    ELSE SortByCountDesc(counts)[1].signal

(***************************************************************************)
(* computeAll, lines 422-470: the signal table, the vote and the consensus.*)
(***************************************************************************)
NotComputed ==
    [done |-> FALSE, signalRows |-> << >>, counts |-> << >>,
     finalSignal |-> "HOLD", buys |-> 0, holds |-> 0, sells |-> 0]

computeAll(values, price) ==
    LET rows == SignalRows(values, price)
        counts == Counts(rows)
    IN [done |-> TRUE,
        signalRows |-> rows,
        counts |-> counts,
        finalSignal |-> FinalSignal(counts),
        buys |-> Get(counts, "BUY"),
        holds |-> Get(counts, "HOLD"),
        sells |-> Get(counts, "SELL")]

(***************************************************************************)
(* DashboardInner's summaryData.  multiplesAvg is the sum of the five      *)
(* multiples over the divisor 5, kept as the pair [sum, n]; intrinsic is   *)
(* kept times 100: 35 fcff + 45 (sum / 5) + 20 sotp = 35 fcff + 9 sum +    *)
(* 20 sotp.                                                                *)
(***************************************************************************)
SummaryMultiples ==
    << "EBITDA Multiple", "Revenue Multiple", "P/E Multiple", "PEG", "P/B" >>

RECURSIVE SumFrom(_, _, _)
SumFrom(i, names, values) ==
    IF i > Len(names) THEN Fin(0)
    ELSE JsAdd(values[names[i]], SumFrom(i + 1, names, values))

\* deriveSummarySignal(upsidePct) on upsidePct = ((intrinsic / price) - 1) * 100,
\* or 0 when the price is not positive
deriveSummarySignal(intrinsicX100, price) ==
    IF ~JsGt(price, Fin(0)) THEN "HOLD"
    ELSE IF JsGt(intrinsicX100, JsTimes(price, 115)) THEN "BUY"
    ELSE IF JsLt(intrinsicX100, JsTimes(price, 90)) THEN "SELL"
    ELSE "HOLD"

NoSummary ==
    [done |-> FALSE, multiplesAvg |-> [sum |-> Fin(0), n |-> 0],
     inputs |-> {}, intrinsicX100 |-> Fin(0), signal |-> "HOLD"]

SummaryData(values, price) ==
    LET sum == SumFrom(1, SummaryMultiples, values)
        intrinsicX100 ==
            JsAdd(JsAdd(JsTimes(values["FCFF (DCF)"], 35), JsTimes(sum, 9)),
                  JsTimes(values["SOTP"], 20))
    IN [done |-> TRUE,
        multiplesAvg |-> [sum |-> sum, n |-> Len(SummaryMultiples)],
        inputs |-> {SummaryMultiples[i] : i \in 1..Len(SummaryMultiples)}
                      \cup {"FCFF (DCF)", "SOTP"},
        intrinsicX100 |-> intrinsicX100,
        signal |-> deriveSummarySignal(intrinsicX100, price)]

(***************************************************************************)
(* FootballFieldTab: the weighted blend over the models that pass v > 0,   *)
(* weights re-normalised over them.  Weights are in hundredths; a blended  *)
(* figure is the pair [num, den] with value num / den (0 when den = 0).    *)
(* No Monte Carlo result is present, so low = 0.85 base, high = 1.15 base, *)
(* kept times 100.                                                         *)
(***************************************************************************)
METHOD_WEIGHTS ==
    [m \in MethodSet |->
        CASE m = "FCFF (DCF)" -> 20
          [] m = "FCFE (DCF)" -> 10
          [] m = "Residual Income" -> 10
          [] m = "EBITDA Multiple" -> 12
          [] m = "P/E Multiple" -> 8
          [] m = "Justified P/E" -> 7
          [] m = "Justified P/B" -> 5
          [] m = "P/CF" -> 7
          [] m = "DDM (2-Stage)" -> 3
          [] m = "H-Model DDM" -> 2
          [] m = "PEG" -> 3
          [] m = "P/B" -> 3
          [] m = "Revenue Multiple" -> 5
          [] m = "SOTP" -> 5]

RECURSIVE WeightedSum(_, _, _)
WeightedSum(S, values, k) ==
    IF S = {} THEN Fin(0)
    ELSE LET m == CHOOSE x \in S : TRUE
         IN JsAdd(JsTimes(values[m], METHOD_WEIGHTS[m] * k),
                  WeightedSum(S \ {m}, values, k))

RECURSIVE TotalWeight(_)
TotalWeight(S) ==
    IF S = {} THEN 0
    ELSE LET m == CHOOSE x \in S : TRUE
         IN METHOD_WEIGHTS[m] + TotalWeight(S \ {m})

NoFootballField ==
    [done |-> FALSE, allMethods |-> {}, totalWeight |-> 0,
     blended |-> Fin(0), blendedLowX100 |-> Fin(0), blendedHighX100 |-> Fin(0)]

FootballField(values) ==
    LET allMethods == {m \in MethodSet : Positive(values[m])}
    IN [done |-> TRUE,
        allMethods |-> allMethods,
        totalWeight |-> TotalWeight(allMethods),
        blended |-> WeightedSum(allMethods, values, 1),
        blendedLowX100 |-> WeightedSum(allMethods, values, 85),
        blendedHighX100 |-> WeightedSum(allMethods, values, 115)]

(***************************************************************************)
(* FinanceTerminal.  Text is a sequence of one-character strings, so that  *)
(* trim() and toLowerCase() are computed; a history entry's content is a   *)
(* sequence (of characters for an echo, of stream chunks for an output, of *)
(* one fixed line for a system or error entry).                            *)
(***************************************************************************)
RECURSIVE TrimLeft(_)
TrimLeft(t) ==
    IF t # << >> /\ t[1] = " " THEN TrimLeft(Tail(t)) ELSE t

RECURSIVE TrimRight(_)
TrimRight(t) ==
    IF t # << >> /\ t[Len(t)] = " " THEN TrimRight(SubSeq(t, 1, Len(t) - 1)) ELSE t

Trim(t) == TrimRight(TrimLeft(t))

UpperLetters ==
    << "A", "B", "C", "D", "E", "F", "G", "H", "I", "J", "K", "L", "M",
       "N", "O", "P", "Q", "R", "S", "T", "U", "V", "W", "X", "Y", "Z" >>

LowerLetters ==
    << "a", "b", "c", "d", "e", "f", "g", "h", "i", "j", "k", "l", "m",
       "n", "o", "p", "q", "r", "s", "t", "u", "v", "w", "x", "y", "z" >>

LowerCh(c) ==
    IF \E i \in 1..26 : UpperLetters[i] = c
    THEN LowerLetters[CHOOSE i \in 1..26 : UpperLetters[i] = c]
    ELSE c

ToLowerCase(t) == [i \in 1..Len(t) |-> LowerCh(t[i])]

CLEAR == << "c", "l", "e", "a", "r" >>
HELP == << "h", "e", "l", "p" >>

Banner == << "FinanceTerminal v1.0" >>
HelpText == << "Available commands:" >>
ApiError == << "Error: could not reach API. Check your OPENAI_API_KEY." >>
NoResponse == << "(no response)" >>

SUGGESTIONS == { << "w", "h", "y", "?" >> }

\* what the user may type into the input box
Typed ==
    { << >>, << " " >>, << "C", "l", "e", "a", "r", " " >>,
      << "H", "E", "L", "P" >>, << " ", "w", "?" >> }

Chunks == { "tok" }

InFlight == {"fetching", "streaming"}

Pending == {k \in 1..Len(requests) : requests[k].phase \in InFlight}

\* const push = (entry) => setHistory((h) => [...h, { id: uid(), ...entry }])
push(h, id, type, content) ==
    Append(h, [id |-> id, type |-> type, content |-> content])

\* h.map((e) => (e.id === streamId ? { ...e, content } : e))
SetContent(h, streamId, content) ==
    [i \in 1..Len(h) |->
        IF h[i].id = streamId
        THEN [id |-> h[i].id, type |-> h[i].type, content |-> content]
        ELSE h[i]]

SetRequest(k, r) == [requests EXCEPT ![k] = r]

TerminalIdle ==
    /\ history = << >>
    /\ input = << >>
    /\ loading = FALSE
    /\ cmdHistory = << >>
    /\ cmdIndex = -1
    /\ uidCounter = 0
    /\ requests = << >>
    /\ submitLog = [calls |-> 0, pending |-> FALSE]

(***************************************************************************)
(* Scenario state container.  Assumptions is a function from field name to *)
(* value; rates, multiples and years are kept in thousandths (0.025 is 25, *)
(* 14.0 is 14000); n_sims and proj_years_n are plain counts.  A partial    *)
(* Assumptions object is a function on a subset of the field names.        *)
(***************************************************************************)
SCENARIO_PRESETS ==
    [Base |-> [yr1_g |-> 25, yr2_g |-> 35, yr3_g |-> 40, lt_g |-> 30,
               terminal_g |-> 25, wacc |-> 85, cost_of_equity |-> 85,
               target_ebitda_m |-> 270, capex_pct |-> 25, exit_mult |-> 14000,
               beta |-> 1000, tax_rate |-> 210, rf |-> 43, erp |-> 55,
               cost_of_debt |-> 45, hl |-> 2500],
     Bull |-> [yr1_g |-> 45, yr2_g |-> 55, yr3_g |-> 60, lt_g |-> 45,
               terminal_g |-> 30, wacc |-> 75, cost_of_equity |-> 75,
               target_ebitda_m |-> 300, capex_pct |-> 20, exit_mult |-> 17000,
               beta |-> 850, tax_rate |-> 210, rf |-> 43, erp |-> 55,
               cost_of_debt |-> 40, hl |-> 2500],
     Bear |-> [yr1_g |-> 5, yr2_g |-> 10, yr3_g |-> 20, lt_g |-> 20,
               terminal_g |-> 20, wacc |-> 100, cost_of_equity |-> 100,
               target_ebitda_m |-> 230, capex_pct |-> 30, exit_mult |-> 11000,
               beta |-> 1200, tax_rate |-> 210, rf |-> 43, erp |-> 55,
               cost_of_debt |-> 50, hl |-> 2500]]

ScenarioKeys == {"Base", "Bull", "Bear"}

PresetFields == DOMAIN SCENARIO_PRESETS["Base"]

\* { ...a, ...b }
Spread(a, b) ==
    [k \in DOMAIN a \cup DOMAIN b |-> IF k \in DOMAIN b THEN b[k] ELSE a[k]]

DEFAULT_ASSUMPTIONS ==
    Spread(SCENARIO_PRESETS["Base"],
           [scenario |-> "Base", proj_years_n |-> 5, n_sims |-> 5000, ddm_g |-> 35])

Empty == [k \in {} |-> 0]

\* ...(initial?.beta !== undefined && { beta: initial.beta })
SeedOf(init, k) == IF k \in DOMAIN init THEN [j \in {k} |-> init[k]] ELSE Empty

\* useState({ ...DEFAULT_ASSUMPTIONS, beta seed, tax_rate seed, ...initial })
InitialAssumptions(init) ==
    Spread(Spread(Spread(DEFAULT_ASSUMPTIONS, SeedOf(init, "beta")),
                  SeedOf(init, "tax_rate")),
           init)

\* the sliders of the assumptions drawer: key, and min and max of the
\* slider converted by fromDisplay
FIELDS ==
    [rf |-> {0, 80}, erp |-> {30, 100}, cost_of_debt |-> {10, 120},
     hl |-> {1000, 10000}, beta |-> {100, 3000}, wacc |-> {30, 200},
     cost_of_equity |-> {30, 200}, yr1_g |-> {-50, 250}, yr2_g |-> {-50, 250},
     yr3_g |-> {-50, 250}, lt_g |-> {0, 100}, terminal_g |-> {5, 50},
     exit_mult |-> {4000, 35000}, target_ebitda_m |-> {50, 600},
     tax_rate |-> {0, 400}, capex_pct |-> {5, 150}]

\* config.default_assumptions: absent, the live pipeline's seed (beta,
\* capex_pct, tax_rate), or an uploaded config's partial assumptions
InitialProps ==
    { Empty,
      [beta |-> 1300, capex_pct |-> 30, tax_rate |-> 250],
      [beta |-> 850, capex_pct |-> 25, tax_rate |-> 210],
      [scenario |-> "Bull", wacc |-> 90, beta |-> 1300] }

ApplyPresetAsPrevWins(prev, s) ==
    Spread(Spread(SCENARIO_PRESETS[s], prev), [scenario |-> s])

\* (prev) => ({ ...prev, ...SCENARIO_PRESETS[s], scenario: s })
ApplyPreset(prev, s) ==
    Spread(Spread(prev, SCENARIO_PRESETS[s]), [scenario |-> s])

SetFieldAsFromDefaults(prev, key, value) ==
    Spread(DEFAULT_ASSUMPTIONS, [j \in {key} |-> value])

\* (prev) => ({ ...prev, [key]: value })
SetField(prev, key, value) == Spread(prev, [j \in {key} |-> value])

ScenarioIdle ==
    /\ initial = Empty
    /\ assumptions = DEFAULT_ASSUMPTIONS
    /\ lastOp = [n |-> 0, op |-> "none", s |-> "Base", key |-> "", value |-> 0]

(***************************************************************************)
(* Config orchestrator.  A config is a record: kind "null" is null, kind   *)
(* "falsy" a falsy JSON value (0, false, ""), "override" the static file's *)
(* config and "live" the config assembled by the live pipeline.            *)
(***************************************************************************)
NullConfig == [kind |-> "null", fundamentals |-> "none", sources |-> "none"]

FalsyConfig == [kind |-> "falsy", fundamentals |-> "none", sources |-> "none"]

OverrideConfig == [kind |-> "override", fundamentals |-> "file", sources |-> "file"]

\* !config
NotConfig(config) == config.kind \in {"null", "falsy"}

\* what the fetch of /data/TICKER.json and res.json() can do
OverrideOutcomes ==
    {"fetchThrows", "notOk", "jsonThrows", "jsonNull", "wrapped", "bare", "jsonFalsy"}

\* the outcomes after which the try block returns
OverrideReturns == {"wrapped", "bare", "jsonFalsy"}

\* the outcomes whose exception the first catch swallows
OverrideThrows == {"fetchThrows", "jsonThrows", "jsonNull"}

OverrideNews == <<"o1">>

\* { config: json.config ?? json, news: json.news ?? [], sec: null }
OverrideResult(o) ==
    [status |-> "returned",
     config |-> IF o = "jsonFalsy" THEN FalsyConfig ELSE OverrideConfig,
     news   |-> IF o = "wrapped" THEN OverrideNews ELSE << >>,
     sec    |-> "null"]

CatchLiveAsRethrow ==
    [status |-> "threw", config |-> NullConfig, news |-> << >>, sec |-> "null"]

\* catch (err) { return { config: null, news: [], sec: null } }
CatchLive ==
    [status |-> "returned", config |-> NullConfig, news |-> << >>, sec |-> "null"]

Running ==
    [status |-> "running", config |-> NullConfig, news |-> << >>, sec |-> "null"]

\* the articles the two news feeds can return; a failing feed returns []
YahooNews == { << >>, <<"t1">>, <<"t1", "t2", "t3", "t4", "t5">> }

GoogleNews == { << >>, <<"t6">>, <<"t1", "t6">> }

RECURSIVE Dedupe(_, _)
\* push the articles of google whose title is not yet among articles
Dedupe(articles, google) ==
    IF google = << >> THEN articles
    ELSE IF \E i \in 1..Len(articles) : articles[i] = Head(google)
         THEN Dedupe(articles, Tail(google))
         ELSE Dedupe(Append(articles, Head(google)), Tail(google))

\* fetchNews: the second feed is asked only when the first gave fewer than 5
fetchNews(yahoo, google) ==
    LET articles == IF Len(yahoo) < 5 THEN Dedupe(yahoo, google) ELSE yahoo
    IN  SubSeq(articles, 1, IF Len(articles) < 20 THEN Len(articles) ELSE 20)

\* the config fetchLiveConfig assembles from what the fetchers returned
AssembledConfig(run) ==
    [kind         |-> "live",
     fundamentals |-> IF run.xbrl = "facts" THEN "xbrl" ELSE "fallback",
     sources      |-> IF run.sec = "filing" THEN "edgar" ELSE "yahooOnly"]

NoRun ==
    [pc |-> "idle", live |-> "notStarted", override |-> "none",
     settled |-> {}, failed |-> {},
     quote |-> "none", cik |-> "null", sec |-> "null", xbrl |-> "null",
     news |-> << >>]

FetchIdle ==
    /\ fetchRun = NoRun
    /\ fetchResult = Running
    /\ pageView = "loading"

(***************************************************************************)
(* Landing page: the upload panel, the saved-profiles index in             *)
(* localStorage, and the client wrapper of the ticker page.  File names    *)
(* and tickers are sequences of characters, so that endsWith and           *)
(* toUpperCase are computed.                                               *)
(***************************************************************************)
UpperCh(c) ==
    CASE c = "a" -> "A" [] c = "b" -> "B" [] c = "m" -> "M" [] OTHER -> c

ToUpperCase(t) == [i \in 1..Len(t) |-> UpperCh(t[i])]

\* name.endsWith(suffix)
EndsWith(name, suffix) ==
    /\ Len(name) >= Len(suffix)
    /\ SubSeq(name, Len(name) - Len(suffix) + 1, Len(name)) = suffix

DotJson == << ".", "j", "s", "o", "n" >>

SizeLimit == 200 * 1024 * 1024

\* a config as the upload and the ticker page see it: ticker "" is the
\* empty sequence; a config without a ticker field has hasTicker FALSE
Config(ticker, hasTicker, name) ==
    [ticker |-> ticker, hasTicker |-> hasTicker, name |-> name]

NoConfig == Config(<< >>, FALSE, "")

\* what JSON.parse of the file's text gives: a SyntaxError, null, an object
\* { config: ... } or the config object itself
Content(parse, wrapped, config) ==
    [parse |-> parse, wrapped |-> wrapped, config |-> config]

File(name, size, content) == [name |-> name, size |-> size, content |-> content]

JsonName == << "c", ".", "j", "s", "o", "n" >>

Files ==
    { File(<< "c", ".", "t", "x", "t" >>, 1024,
           Content("value", FALSE, Config(<< "A", "B" >>, TRUE, "Alpha"))),
      File(<< "j", "s", "o", "n" >>, 1024,
           Content("value", FALSE, Config(<< "A", "B" >>, TRUE, "Alpha"))),
      File(JsonName, SizeLimit + 1,
           Content("value", FALSE, Config(<< "A", "B" >>, TRUE, "Alpha"))),
      File(JsonName, 1024, Content("SyntaxError", FALSE, NoConfig)),
      File(JsonName, 1024, Content("null", FALSE, NoConfig)),
      File(JsonName, 1024, Content("value", FALSE, Config(<< >>, FALSE, "Alpha"))),
      File(JsonName, 1024, Content("value", TRUE, Config(<< >>, TRUE, "Alpha"))),
      File(JsonName, 1024, Content("value", FALSE, Config(<< "A", "B" >>, TRUE, "Alpha"))),
      File(JsonName, SizeLimit, Content("value", TRUE, Config(<< "A", "B" >>, TRUE, "Beta"))),
      File(JsonName, 1024, Content("value", TRUE, Config(<< "a", "b" >>, TRUE, "Lower"))),
      File(JsonName, 1024, Content("value", FALSE, Config(<< "M" >>, TRUE, "Mike"))) }

NoFile == File(<< >>, 0, Content("null", FALSE, NoConfig))

\* the messages the panel can show; "" is null
OnlyJson == "Only .json files are supported."
TooLarge == "File exceeds 200 MB limit."
NoTicker == "JSON must contain a 'ticker' field."
ReadFailed == "Failed to read file."

\* err.message of what the onload handler can throw
ErrorMessage(thrown) ==
    CASE thrown = "SyntaxError"  -> "Unexpected token in JSON"
      [] thrown = "TypeError"    -> "Cannot read properties of null (reading 'config')"
      [] thrown = "NoTicker"     -> NoTicker
      [] thrown = "QuotaExceeded" -> "The quota has been exceeded."

RejectionAsNoTickerCheck(file) ==
    IF ~EndsWith(file.name, DotJson) THEN "name"
    ELSE IF file.size > SizeLimit THEN "size"
    ELSE IF file.content.parse = "SyntaxError" THEN "SyntaxError"
    ELSE IF file.content.parse = "null" THEN "TypeError"
    ELSE ""

\* the first check of processFile and of the onload handler that the file
\* fails: "" when it passes them all
Rejection(file) ==
    IF ~EndsWith(file.name, DotJson) THEN "name"
    ELSE IF file.size > SizeLimit THEN "size"
    ELSE IF file.content.parse = "SyntaxError" THEN "SyntaxError"
    ELSE IF file.content.parse = "null" THEN "TypeError"
    ELSE IF ~file.content.config.hasTicker \/ file.content.config.ticker = << >>
         THEN "NoTicker"
    ELSE ""

\* existing.filter((p) => p.ticker !== ticker)
FilterOut(profiles, ticker) == SelectSeq(profiles, LAMBDA p : p.ticker # ticker)

SaveProfileAsAppend(profiles, config, now) ==
    Append(FilterOut(profiles, config.ticker),
           [ticker |-> config.ticker, name |-> config.name, savedAt |-> now])

\* [{ ticker, name, savedAt }, ...filtered]
SaveProfile(profiles, config, now) ==
    << [ticker |-> config.ticker, name |-> config.name, savedAt |-> now] >>
        \o FilterOut(profiles, config.ticker)

\* localStorage.removeItem(key) on the msf_config_ items
RemoveItem(items, key) == [k \in DOMAIN items \ {key} |-> items[k]]

NoItems == [k \in {} |-> NoConfig]

NoPage == [view |-> "none", ticker |-> << >>, config |-> NoConfig, effect |-> FALSE]

Landing == [path |-> << >>, by |-> NoFile]

UploadIdle ==
    /\ uploadPanel = [error |-> "", fileName |-> << >>, loading |-> FALSE]
    /\ readers = {}
    /\ localStorage = [items |-> NoItems, profiles |-> << >>]
    /\ clock = 0
    /\ route = Landing
    /\ tickerPage = NoPage
    /\ uploadLog = [op |-> "none", file |-> NoFile, at |-> 0]

(***************************************************************************)
(* AI-assistant endpoint.  A text is a sequence of pieces; the template    *)
(* literal `Error: ${msg}` is the two pieces "Error: " and msg.            *)
(***************************************************************************)
KeyMissingBodyAsEmpty == << >>

\* encoder.encode("OpenAI API key not configured. ...")
KeyMissingBody ==
    << "OpenAI API key not configured. Add OPENAI_API_KEY to your .env.local file." >>

\* what client.chat.completions.create can reject with: an Error with its
\* message, or a value that is not an Error
UpstreamErrors ==
    { [isError |-> TRUE, message |-> "Connection error."],
      [isError |-> FALSE, message |-> "" ] }

NoError == [isError |-> FALSE, message |-> "none"]

ErrorBodyAsBareMessage(e) == << IF e.isError THEN e.message ELSE "Unknown error" >>

\* `Error: ${e instanceof Error ? e.message : "Unknown error"}`
ErrorBody(e) == << "Error: ", IF e.isError THEN e.message ELSE "Unknown error" >>

PlainText == "text/plain; charset=utf-8"

\* one request as the endpoint sees it
Handling(kind, phase, body, thrown) ==
    [kind |-> kind, phase |-> phase, body |-> body, thrown |-> thrown,
     contentType |-> IF kind = "calling" THEN "" ELSE PlainText]

\* chunk.choices[0]?.delta?.content ?? ""
Deltas == { "", "tok" }

AskIdle == askRoute = [apiKey |-> TRUE, handled |-> << >>]

(***************************************************************************)
(* Filing facts: pickAnnual and firstConcept.  Dates are day numbers (an   *)
(* ISO date orders as its day number does); 0 is an absent date, "" an     *)
(* absent form.                                                            *)
(***************************************************************************)
XbrlUnit(form, start, end, filed, val) ==
    [form |-> form, start |-> start, end |-> end, filed |-> filed, val |-> val]

\* isAnnualForm
isAnnualForm(form) == form \in {"10-K", "10-K/A", "20-F", "40-F"}

IsAnnualEntryAsFormOnly(v) == isAnnualForm(v.form) /\ v.start # 0 /\ v.end # 0

\* the filter of pickAnnual
IsAnnualEntry(v) ==
    IF ~isAnnualForm(v.form) THEN FALSE
    ELSE IF v.start = 0 \/ v.end = 0 THEN FALSE
    ELSE LET days == v.end - v.start
         IN  days >= 300 /\ days <= 400

RECURSIVE Dedup(_, _)
\* the loop over annuals with byYearEnd, a Map in insertion order: a later
\* entry replaces the one of its end date when its filed date is greater
Dedup(byYearEnd, annuals) ==
    IF annuals = << >> THEN byYearEnd
    ELSE LET entry == Head(annuals)
             at == {i \in 1..Len(byYearEnd) : byYearEnd[i].end = entry.end}
         IN  IF at = {}
             THEN Dedup(Append(byYearEnd, entry), Tail(annuals))
             ELSE LET i == CHOOSE i \in at : TRUE
                  IN  IF entry.filed > byYearEnd[i].filed
                      THEN Dedup([byYearEnd EXCEPT ![i] = entry], Tail(annuals))
                      ELSE Dedup(byYearEnd, Tail(annuals))

RECURSIVE SortByEnd(_)
\* .sort((a, b) => a.end.localeCompare(b.end)): the end dates are distinct
SortByEnd(entries) ==
    IF entries = << >> THEN << >>
    ELSE LET m == CHOOSE i \in 1..Len(entries) :
                      \A j \in 1..Len(entries) : entries[i].end <= entries[j].end
         IN  << entries[m] >>
                 \o SortByEnd([k \in 1..(Len(entries) - 1) |->
                                  IF k < m THEN entries[k] ELSE entries[k + 1]])

pickAnnual(values) == SortByEnd(Dedup(<< >>, SelectSeq(values, IsAnnualEntry)))

\* what gaap[name] can be: no concept; a concept without the unit; or a
\* concept with the unit's array
Concept(present, hasUnit, vals) ==
    [present |-> present, hasUnit |-> hasUnit, vals |-> vals]

RECURSIVE firstConcept(_, _)

FirstConceptAsFirstPresent(gaap, names) ==
    LET present == {i \in 1..Len(names) :
                       /\ gaap[names[i]].present
                       /\ gaap[names[i]].hasUnit
                       /\ Len(gaap[names[i]].vals) # 0}
    IN  IF present = {} THEN << >>
        ELSE pickAnnual(gaap[names[CHOOSE i \in present :
                                       \A j \in present : i <= j]].vals)

\* for (const name of names) { ... if (annual.length > 0) return annual }
firstConcept(gaap, names) ==
    IF names = << >> THEN << >>
    ELSE LET concept == gaap[Head(names)]
         IN  IF ~concept.present THEN firstConcept(gaap, Tail(names))
             ELSE IF ~concept.hasUnit \/ Len(concept.vals) = 0
                  THEN firstConcept(gaap, Tail(names))
             ELSE IF Len(pickAnnual(concept.vals)) > 0
                  THEN pickAnnual(concept.vals)
             ELSE firstConcept(gaap, Tail(names))

\* the first three of the ordered candidate tags of revenue
RevenueNames ==
    << "RevenueFromContractWithCustomerExcludingAssessedTax", "Revenues",
       "SalesRevenueNet" >>

NoGaap == [n \in {"Revenues", "RevenueFromContractWithCustomerExcludingAssessedTax",
                  "SalesRevenueNet"} |-> Concept(FALSE, FALSE, << >>)]

NoXbrlOut == [done |-> {}, annual |-> << >>, series |-> << >>]

XbrlIdle ==
    /\ xbrlIn = [values |-> << >>, gaap |-> NoGaap]
    /\ xbrlOut = NoXbrlOut

(***************************************************************************)
(* CAPM / WACC and the justified P/E, on exact scaled integers.  Rates     *)
(* (rf, erp, kd, roe, plowback, payout, ke) are in thousandths, beta in    *)
(* tenths, the tax rate T and yr1_g in hundredths, E, D and eps in whole   *)
(* units.  A quotient is kept as a fraction [num, den] with den > 0.       *)
(***************************************************************************)
Frac(n, d) == [num |-> n, den |-> d]

\* ke, kd_after_tax and wacc are in hundred-thousandths.
WaccResult(wacc, ke, kd_after_tax) ==
    [wacc |-> wacc, ke |-> ke, kd_after_tax |-> kd_after_tax]

\* the weights exchanged: (D/V) * ke + (E/V) * kd_after_tax
ComputeWACCAsSwappedWeights(rf, beta, erp, kd, T, marketCapE, totalDebtD) ==
    LET ke == 100 * rf + 10 * beta * erp
        kd_after_tax == kd * (100 - T)
        V == marketCapE + totalDebtD
    IN  IF V <= 0 THEN WaccResult(Frac(ke, 1), ke, kd_after_tax)
        ELSE WaccResult(Frac(totalDebtD * ke + marketCapE * kd_after_tax, V),
                        ke, kd_after_tax)

\* computeWACC: ke = rf + beta * erp, kd_after_tax = kd * (1 - T),
\* wacc = ke when V <= 0, else (E/V) * ke + (D/V) * kd_after_tax
computeWACC(rf, beta, erp, kd, T, marketCapE, totalDebtD) ==
    LET ke == 100 * rf + 10 * beta * erp
        kd_after_tax == kd * (100 - T)
        V == marketCapE + totalDebtD
    IN  IF V <= 0 THEN WaccResult(Frac(ke, 1), ke, kd_after_tax)
        ELSE WaccResult(Frac(marketCapE * ke + totalDebtD * kd_after_tax, V),
                        ke, kd_after_tax)

Min(a, b) == IF a <= b THEN a ELSE b

\* without the 0.001 cap: g = roe * b
ComputeJustifiedPEAsUncapped(B, a, ke) ==
    LET roe == IF B.roe > 0 THEN B.roe ELSE 100
        b == IF B.plowback_ratio > 0 THEN B.plowback_ratio
             ELSE 1000 - B.payout_ratio
        g == roe * b
        r == ke * 1000
    IN  IF r <= g THEN [pps_jpe |-> Frac(0, 1), justifiedPE |-> Frac(0, 1)]
        ELSE LET payout == 1000 - b
                 justifiedPE == Frac(payout * 1000, r - g)
                 forwardEps == Frac(B.eps * (100 + a.yr1_g), 100)
             IN  [pps_jpe |-> Frac(justifiedPE.num * forwardEps.num,
                                   justifiedPE.den * forwardEps.den),
                  justifiedPE |-> justifiedPE]

\* computeJustifiedPE(B, a, ke); roe * b, g and r are in millionths
computeJustifiedPE(B, a, ke) ==
    LET roe == IF B.roe > 0 THEN B.roe ELSE 100
        b == IF B.plowback_ratio > 0 THEN B.plowback_ratio
             ELSE 1000 - B.payout_ratio
        g == Min(roe * b, (ke - 1) * 1000)
        r == ke * 1000
    IN  IF r <= g THEN [pps_jpe |-> Frac(0, 1), justifiedPE |-> Frac(0, 1)]
        ELSE LET payout == 1000 - b
                 \* payout / (r - g), payout brought to millionths
                 justifiedPE == Frac(payout * 1000, r - g)
                 \* B.eps * (1 + a.yr1_g)
                 forwardEps == Frac(B.eps * (100 + a.yr1_g), 100)
             IN  [pps_jpe |-> Frac(justifiedPE.num * forwardEps.num,
                                   justifiedPE.den * forwardEps.den),
                  justifiedPE |-> justifiedPE]

\* the arguments and results before any call
NoCalcIn ==
    [intrinsic |-> Fin(0), market |-> Fin(0),
     rf |-> 0, beta |-> 0, erp |-> 0, kd |-> 0, T |-> 0, E |-> 0, D |-> 0,
     B |-> [roe |-> 0, plowback_ratio |-> 0, payout_ratio |-> 0, eps |-> 0],
     a |-> [yr1_g |-> 0], ke |-> 0]

NoCalcOut ==
    [done |-> {}, signal |-> "N/A",
     wacc |-> WaccResult(Frac(0, 1), 0, 0),
     jpe |-> [pps_jpe |-> Frac(0, 1), justifiedPE |-> Frac(0, 1)]]

CalcIdle ==
    /\ calcIn = NoCalcIn
    /\ calcOut = NoCalcOut

(***************************************************************************)
(* Exact rational numbers for the projection pipeline: a fraction          *)
(* [num, den] in lowest terms with den > 0.  Assumptions are kept in       *)
(* thousandths as in the scenario container; a Baseline keeps money and    *)
(* per-share amounts in whole units and ratios in thousandths.             *)
(***************************************************************************)
Abs(n) == IF n < 0 THEN -n ELSE n

RECURSIVE GCD(_, _)
GCD(a, b) == IF b = 0 THEN a ELSE GCD(b, a % b)

Rat(n, d) ==
    LET g == GCD(Abs(n), Abs(d))
        sgn == IF d < 0 THEN -1 ELSE 1
    IN  Frac(sgn * (n \div g), sgn * (d \div g))

Whole(n) == Frac(n, 1)
Milli(n) == Rat(n, 1000)

LCM(a, b) == (a \div GCD(a, b)) * b

RAdd(x, y) ==
    LET l == LCM(x.den, y.den)
    IN  Rat(x.num * (l \div x.den) + y.num * (l \div y.den), l)
RNeg(x) == Frac(-x.num, x.den)
RSub(x, y) == RAdd(x, RNeg(y))
RMul(x, y) ==
    LET a == Rat(x.num, y.den)
        b == Rat(y.num, x.den)
    IN  Frac(a.num * b.num, a.den * b.den)
RDiv(x, y) == RMul(x, Rat(y.den, y.num))
RLt(x, y) == RSub(x, y).num < 0
RLe(x, y) == RSub(x, y).num <= 0

RECURSIVE RPow(_, _)
RPow(x, k) == IF k = 0 THEN Whole(1) ELSE RMul(x, RPow(x, k - 1))

Max(a, b) == IF a >= b THEN a ELSE b

\* the fade over one year more: (i - 2) / max(proj_years_n - 2, 1)
BuildGrowthScheduleAsFadeOverN(a) ==
    [k \in 1..a.proj_years_n |->
        LET i == k - 1
        IN  IF i = 0 THEN Milli(a.yr1_g)
            ELSE IF i = 1 THEN Milli(a.yr2_g)
            ELSE IF i = 2 THEN Milli(a.yr3_g)
            ELSE LET fade == Rat(i - 2, Max(a.proj_years_n - 2, 1))
                 IN  RAdd(Milli(a.yr3_g), RMul(fade, Milli(a.lt_g - a.yr3_g)))]

\* buildGrowthSchedule(a): Array.from({ length: proj_years_n }, (_, i) => ...)
buildGrowthSchedule(a) ==
    [k \in 1..a.proj_years_n |->
        LET i == k - 1
        IN  IF i = 0 THEN Milli(a.yr1_g)
            ELSE IF i = 1 THEN Milli(a.yr2_g)
            ELSE IF i = 2 THEN Milli(a.yr3_g)
            ELSE LET fade == Rat(i - 2, Max(a.proj_years_n - 3, 1))
                 IN  RAdd(Milli(a.yr3_g), RMul(fade, Milli(a.lt_g - a.yr3_g)))]

ROne == Whole(1)
RZero == Whole(0)
RGt(x, y) == RLt(y, x)

\* growthRates.slice(0, n).reduce((acc, g) => acc * (1 + g), 1)
RECURSIVE Compound(_, _)
Compound(growthRates, n) ==
    IF n = 0 THEN ROne
    ELSE RMul(Compound(growthRates, n - 1), RAdd(ROne, growthRates[n]))

\* buildProforma(B, growthRates, a): one row per growth rate
buildProforma(B, growthRates, a) ==
    LET revenue == Whole(B.revenue)
        cogs_pct == IF B.revenue # 0 THEN Rat(B.cogs, B.revenue) ELSE Rat(55, 100)
        sga_pct == IF B.revenue # 0 THEN Rat(B.sga, B.revenue) ELSE Rat(20, 100)
        da_pct == IF B.revenue # 0 THEN Rat(B.da_total, B.revenue) ELSE Rat(3, 100)
        int_pct == IF B.revenue # 0 THEN Rat(B.interest_expense, B.revenue)
                   ELSE Rat(25, 1000)
        tax_rate == Milli(B.tax_rate)
    IN  [k \in 1..Len(growthRates) |->
            LET i == k - 1
                rev == RMul(revenue, Compound(growthRates, i + 1))
                marginProg == Rat(i + 1, Len(growthRates))
                \* computed, and used by no field of the row
                ebitdaM == RAdd(Milli(B.ebitda_margin),
                                RMul(marginProg,
                                     Milli(a.target_ebitda_m - B.ebitda_margin)))
                cogs == RMul(rev, cogs_pct)
                gp == RSub(rev, cogs)
                sga == RMul(rev, sga_pct)
                op_inc == RSub(gp, sga)
                da == RMul(rev, da_pct)
                ebitda == RAdd(op_inc, da)
                interest == RMul(rev, int_pct)
                pretax == RSub(op_inc, interest)
                tax == IF RGt(pretax, RZero) THEN RMul(pretax, tax_rate) ELSE RZero
                ni == RSub(pretax, tax)
                capex == RMul(rev, Milli(a.capex_pct))
                fcff == RSub(RAdd(RMul(op_inc, RSub(ROne, tax_rate)), da), capex)
                fcfe == RSub(fcff, RMul(interest, RSub(ROne, tax_rate)))
                dividends == IF RGt(ni, RZero) THEN RMul(ni, Milli(B.payout_ratio))
                             ELSE RZero
            IN  [year |-> 2025 + i,
                 revenue |-> rev,
                 cogs |-> cogs,
                 gross_profit |-> gp,
                 sga |-> sga,
                 da |-> da,
                 op_inc |-> op_inc,
                 interest |-> interest,
                 pretax |-> pretax,
                 tax |-> tax,
                 net_income |-> ni,
                 ebitda |-> ebitda,
                 capex |-> capex,
                 fcff |-> fcff,
                 fcfe |-> fcfe,
                 dividends |-> dividends,
                 ebitda_margin |-> IF rev # RZero THEN RDiv(ebitda, rev) ELSE RZero]]

\* arr.reduce((acc, f, i) => acc + f / (1 + rate) ** (i + 1), 0)
RECURSIVE PresentValue(_, _, _)
PresentValue(arr, rate, n) ==
    IF n = 0 THEN RZero
    ELSE RAdd(PresentValue(arr, rate, n - 1),
              RDiv(arr[n], RPow(RAdd(ROne, rate), n)))

\* dcfPrice(fcfs, terminalVal, discountRate, netDebt, shares).pps
dcfPrice(fcfs, terminalVal, discountRate, netDebt, shares) ==
    LET n == Len(fcfs)
        pvFcfs == PresentValue(fcfs, discountRate, n)
        pvTv == RDiv(terminalVal, RPow(RAdd(ROne, discountRate), n))
        ev == RAdd(pvFcfs, pvTv)
    IN  IF shares # 0 THEN RDiv(RSub(ev, Whole(netDebt)), Whole(shares)) ELSE RZero

\* computeFCFE(proforma, B, a, ke).pps_fcfe
computeFCFE(proforma, B, a, ke) ==
    LET T == IF a.tax_rate # 0 THEN Milli(a.tax_rate) ELSE Milli(B.tax_rate)
        n == Len(proforma)
        netBorrowPerYear == Rat(B.net_borrowing, Max(n, 1))
        fcfes == [k \in 1..n |->
                     RAdd(RSub(proforma[k].fcff,
                               RMul(proforma[k].interest, RSub(ROne, T))),
                          netBorrowPerYear)]
        g == Milli(a.terminal_g)
    IN  IF RLe(ke, g) THEN RZero
        ELSE LET tv == RDiv(RMul(fcfes[n], RAdd(ROne, g)), RSub(ke, g))
                 pvFcfes == PresentValue(fcfes, ke, n)
                 pvTv == RDiv(tv, RPow(RAdd(ROne, ke), n))
                 equityValue == RAdd(pvFcfes, pvTv)
             IN  IF B.shares_diluted > 0
                 THEN RDiv(equityValue, Whole(B.shares_diluted))
                 ELSE RZero

\* the loop of computeRI after i years: eps_t, bvps_t and sumPvRi, and the
\* ri of the last year
RECURSIVE RILoop(_, _, _, _, _)
RILoop(B, growthRates, plowback, ke, i) ==
    IF i = 0
    THEN [eps_t |-> Whole(B.eps), bvps_t |-> Whole(B.bvps), sumPvRi |-> RZero,
          ri |-> RZero]
    ELSE LET prev == RILoop(B, growthRates, plowback, ke, i - 1)
             eps_t == RMul(prev.eps_t, RAdd(ROne, growthRates[i]))
             required_return == RMul(ke, prev.bvps_t)
             ri == RSub(eps_t, required_return)
             pv_ri == RDiv(ri, RPow(RAdd(ROne, ke), i))
         IN  [eps_t |-> eps_t,
              bvps_t |-> RAdd(prev.bvps_t, RMul(eps_t, plowback)),
              sumPvRi |-> RAdd(prev.sumPvRi, pv_ri),
              ri |-> ri]

\* computeRI(B, a, ke).pps_ri
computeRI(B, a, ke) ==
    IF B.eps <= 0 \/ B.bvps <= 0 \/ RLe(ke, RZero) THEN RZero
    ELSE LET plowback == IF B.plowback_ratio > 0 THEN Milli(B.plowback_ratio)
                         ELSE Milli(1000 - B.payout_ratio)
             growthRates == buildGrowthSchedule(a)
             n == Len(growthRates)
             g == Milli(a.terminal_g)
             loop == RILoop(B, growthRates, plowback, ke, n)
             ri_terminal == IF RGt(ke, g)
                            THEN RDiv(RMul(loop.ri, RAdd(ROne, g)), RSub(ke, g))
                            ELSE RZero
             pv_terminal_ri == RDiv(ri_terminal, RPow(RAdd(ROne, ke), n))
         IN  RAdd(RAdd(Whole(B.bvps), loop.sumPvRi), pv_terminal_ri)

RMax(x, y) == IF RLe(y, x) THEN x ELSE y
RMin(x, y) == IF RLe(x, y) THEN x ELSE y

\* computeHModelDDM(B, a, ke)
computeHModelDDM(B, a, ke) ==
    LET D0 == Whole(B.dps)
        gL == Milli(a.terminal_g)
        gS == Milli(a.yr1_g)
        H == Milli(a.hl)
        r == ke
    IN  IF B.dps <= 0 \/ RLe(r, gL) THEN RZero
        ELSE RMax(RZero,
                  RAdd(RDiv(RMul(D0, RAdd(ROne, gL)), RSub(r, gL)),
                       RDiv(RMul(RMul(D0, H), RSub(gS, gL)), RSub(r, gL))))

\* computeJustifiedPB(B, a, ke).pps_jpb
computeJustifiedPB(B, a, ke) ==
    LET roe == IF B.roe > 0 THEN Milli(B.roe) ELSE Rat(10, 100)
        b == IF B.plowback_ratio > 0 THEN Milli(B.plowback_ratio)
             ELSE Milli(1000 - B.payout_ratio)
        g == RMin(RMul(roe, b), RSub(ke, Milli(1)))
        r == ke
    IN  IF RLe(r, g) \/ B.bvps <= 0 THEN RZero
        ELSE RMul(RDiv(RSub(roe, g), RSub(r, g)), Whole(B.bvps))

\* the FCFF DCF of computeAll: the terminal value falls back to the exit
\* multiple when a.wacc <= a.terminal_g
FcffDcf(B, a, proforma) ==
    LET n == Len(proforma)
        fcffs == [k \in 1..n |-> proforma[k].fcff]
        lastEbitda == proforma[n].ebitda
        wacc == Milli(a.wacc)
        terminal_g == Milli(a.terminal_g)
        tvFcff == IF RGt(wacc, terminal_g)
                  THEN RDiv(RMul(fcffs[n], RAdd(ROne, terminal_g)),
                            RSub(wacc, terminal_g))
                  ELSE RMul(lastEbitda, Milli(a.exit_mult))
    IN  dcfPrice(fcffs, tvFcff, wacc, B.net_debt, B.shares_diluted)

\* the 2-stage DDM of computeAll, discounted at r
TwoStageDDM(B, a, proforma, r) ==
    LET n == Len(proforma)
        divProj == [k \in 1..n |->
                       IF B.shares_diluted # 0
                       THEN RDiv(proforma[k].dividends, Whole(B.shares_diluted))
                       ELSE RZero]
        pvDivs == PresentValue(divProj, r, n)
        terminal_g == Milli(a.terminal_g)
        finalDiv == RMul(divProj[n], RAdd(ROne, terminal_g))
        tvDdm == IF RGt(r, terminal_g) THEN RDiv(finalDiv, RSub(r, terminal_g))
                 ELSE RZero
        pvTvDdm == RDiv(tvDdm, RPow(RAdd(ROne, r), a.proj_years_n))
    IN  IF B.dps > 0 THEN RAdd(pvDivs, pvTvDdm) ELSE RZero

\* ke_calc of computeWACC for an Assumptions object: beta is a multiple of
\* 0.1 and tax_rate of 0.01 in every Assumptions object used here
CapmKe(B, a) ==
    Rat(computeWACC(a.rf, a.beta \div 100, a.erp, a.cost_of_debt,
                    a.tax_rate \div 10, B.current_price * B.shares_diluted,
                    B.total_debt).ke, 100000)

\* the discounted models of computeAll: growth schedule, pro-forma, CAPM,
\* FCFF DCF, 2-stage DDM and the CFA L2 functions.  ke and yr1_g are whole
\* thousandths and hundredths in every input used here, the units of
\* computeJustifiedPE.
DiscountedModels(B, a) ==
    LET growthSchedule == buildGrowthSchedule(a)
        proforma == buildProforma(B, growthSchedule, a)
        ke_calc == CapmKe(B, a)
        ke == IF RGt(ke_calc, RZero) THEN ke_calc ELSE Milli(a.cost_of_equity)
        jpe == computeJustifiedPE(B, [yr1_g |-> a.yr1_g \div 10],
                                  (ke.num * 1000) \div ke.den)
    IN  [ke_calc |-> ke_calc,
         pps_fcff |-> FcffDcf(B, a, proforma),
         pps_ddm |-> TwoStageDDM(B, a, proforma, Milli(a.cost_of_equity)),
         pps_fcfe |-> computeFCFE(proforma, B, a, ke),
         pps_ri |-> computeRI(B, a, ke),
         pps_hddm |-> computeHModelDDM(B, a, ke),
         pps_jpe |-> Rat(jpe.pps_jpe.num, jpe.pps_jpe.den),
         justifiedPE |-> Rat(jpe.justifiedPE.num, jpe.justifiedPE.den),
         pps_jpb |-> computeJustifiedPB(B, a, ke)]

\* a Baseline: revenue 1000 with cogs 500, sga 200, D&A 50 (EBITDA margin
\* 35%), interest 20, 100 shares at 50, debt 400
BaseBaseline ==
    [revenue |-> 1000, cogs |-> 500, sga |-> 200, da_total |-> 50,
     interest_expense |-> 20, ebitda_margin |-> 350, tax_rate |-> 250,
     payout_ratio |-> 400, plowback_ratio |-> 600, roe |-> 150, eps |-> 4,
     bvps |-> 20, dps |-> 2, shares_diluted |-> 100, net_debt |-> 300,
     net_borrowing |-> 30, current_price |-> 50, total_debt |-> 400]

NoModels ==
    [ke_calc |-> RZero, pps_fcff |-> RZero, pps_ddm |-> RZero,
     pps_fcfe |-> RZero, pps_ri |-> RZero, pps_hddm |-> RZero,
     pps_jpe |-> RZero, justifiedPE |-> RZero, pps_jpb |-> RZero]

NoValIn == [B |-> BaseBaseline, a |-> DEFAULT_ASSUMPTIONS, kes |-> <<90, 120>>]

NoValOut ==
    [done |-> {}, growthSchedule |-> << >>, proforma |-> << >>,
     models |-> NoModels, jpe |-> << >>]

ValIdle ==
    /\ valIn = NoValIn
    /\ valOut = NoValOut

(***************************************************************************)
(* News tagging: the keyword lists of newsFetcher.ts, as character         *)
(* sequences.                                                              *)
(***************************************************************************)
POSITIVE_KW ==
    << << "b", "e", "a", "t" >>,
       << "r", "a", "i", "s", "e" >>,
       << "u", "p", "g", "r", "a", "d", "e" >>,
       << "s", "t", "r", "o", "n", "g" >>,
       << "g", "r", "o", "w", "t", "h" >>,
       << "r", "e", "c", "o", "r", "d" >>,
       << "s", "u", "r", "g", "e" >>,
       << "r", "a", "l", "l", "y" >>,
       << "g", "a", "i", "n" >>,
       << "e", "x", "c", "e", "e", "d" >>,
       << "o", "u", "t", "p", "e", "r", "f", "o", "r", "m" >>,
       << "p", "o", "s", "i", "t", "i", "v", "e" >>,
       << "b", "u", "l", "l", "i", "s", "h" >>,
       << "h", "i", "g", "h", "e", "r" >>,
       << "b", "o", "o", "s", "t" >>,
       << "p", "r", "o", "f", "i", "t" >>,
       << "w", "i", "n" >> >>

NEGATIVE_KW ==
    << << "m", "i", "s", "s" >>,
       << "l", "o", "w", "e", "r" >>,
       << "d", "o", "w", "n", "g", "r", "a", "d", "e" >>,
       << "w", "e", "a", "k" >>,
       << "d", "e", "c", "l", "i", "n", "e" >>,
       << "c", "u", "t" >>,
       << "w", "a", "r", "n", "i", "n", "g" >>,
       << "l", "o", "s", "s" >>,
       << "f", "a", "l", "l" >>,
       << "b", "e", "l", "o", "w" >>,
       << "u", "n", "d", "e", "r", "p", "e", "r", "f", "o", "r", "m" >>,
       << "n", "e", "g", "a", "t", "i", "v", "e" >>,
       << "b", "e", "a", "r", "i", "s", "h" >>,
       << "s", "l", "u", "m", "p" >>,
       << "d", "r", "o", "p" >>,
       << "r", "i", "s", "k" >>,
       << "c", "o", "n", "c", "e", "r", "n" >> >>

\* s.includes(sub)
Includes(s, sub) ==
    \E i \in 0..(Len(s) - Len(sub)) : SubSeq(s, i + 1, i + Len(sub)) = sub

\* kws.filter((kw) => lower.includes(kw)).length
CountIncluded(kws, lower) ==
    Cardinality({i \in 1..Len(kws) : Includes(lower, kws[i])})

\* without toLowerCase
SentimentAsCaseSensitive(text) ==
    LET pos == CountIncluded(POSITIVE_KW, text)
        neg == CountIncluded(NEGATIVE_KW, text)
    IN  IF pos > neg THEN "Positive"
        ELSE IF neg > pos THEN "Negative"
        ELSE "Neutral"

\* sentiment(text)
sentiment(text) ==
    LET lower == ToLowerCase(text)
        pos == CountIncluded(POSITIVE_KW, lower)
        neg == CountIncluded(NEGATIVE_KW, lower)
    IN  IF pos > neg THEN "Positive"
        ELSE IF neg > pos THEN "Negative"
        ELSE "Neutral"

NewsIdle ==
    /\ newsText = << >>
    /\ newsSentiment = "none"

(***************************************************************************)
(* fetchXbrlFundamentals: the series of the filing facts aligned to the    *)
(* revenue timeline.  Dates are day numbers, a difference of dates is a     *)
(* number of days; raw values are integers, values in millions and per      *)
(* share are exact rationals.                                               *)
(***************************************************************************)
M == 1000000

Tolerance == 35

InstantWindow == 7

HistYears == 5

\* the ordered candidate tags of the series the model follows
EbitNames == << "OperatingIncomeLoss" >>

CapexNames ==
    << "PaymentsToAcquirePropertyPlantAndEquipment",
       "PaymentsToAcquireProductiveAssets" >>

SharesDilNames ==
    << "WeightedAverageNumberOfDilutedSharesOutstanding",
       "CommonStockSharesOutstanding" >>

AssetsNames == << "Assets" >>

EquityNames ==
    << "StockholdersEquity",
       "StockholdersEquityIncludingPortionAttributableToNoncontrollingInterest" >>

SharesInstNames == << "CommonStockSharesOutstanding" >>

AlignToMasterAsNoTolerance(masterDates, arr) ==
    [i \in 1..Len(masterDates) |->
        LET diff(j) == Abs(arr[j].end - masterDates[i])
        IN  IF arr = << >> THEN 0
            ELSE arr[CHOOSE j \in 1..Len(arr) :
                        \A k \in 1..Len(arr) :
                            diff(j) < diff(k) \/ (diff(j) = diff(k) /\ j <= k)].val]

\* masterDates.map((d) => closest entry of arr within the tolerance, or 0):
\* the first entry of the least distance wins
alignToMaster(masterDates, arr) ==
    [i \in 1..Len(masterDates) |->
        LET diff(j) == Abs(arr[j].end - masterDates[i])
            within == {j \in 1..Len(arr) : diff(j) <= Tolerance}
        IN  IF within = {} THEN 0
            ELSE arr[CHOOSE j \in within :
                        \A k \in within :
                            diff(j) < diff(k) \/ (diff(j) = diff(k) /\ j <= k)].val]

\* for each fiscal year end, the most recently filed annual-form entry
\* within the window, its end set to the year end, or a zero placeholder
pickInstant(values, fyEnds) ==
    [i \in 1..Len(fyEnds) |->
        LET candidates ==
                {j \in 1..Len(values) :
                    /\ isAnnualForm(values[j].form)
                    /\ values[j].end # 0
                    /\ Abs(values[j].end - fyEnds[i]) <= InstantWindow}
        IN  IF candidates # {}
            THEN [values[CHOOSE j \in candidates :
                             \A k \in candidates :
                                 values[j].filed > values[k].filed
                                 \/ (values[j].filed = values[k].filed /\ j <= k)]
                  EXCEPT !.end = fyEnds[i]]
            ELSE XbrlUnit("", 0, fyEnds[i], 0, 0)]

RECURSIVE firstConceptInstant(_, _, _)
\* the values of the first tag whose instants are not all zero, else zeros
firstConceptInstant(gaap, names, fyEnds) ==
    IF names = << >> THEN [i \in 1..Len(fyEnds) |-> 0]
    ELSE LET concept == gaap[Head(names)]
         IN  IF ~concept.present THEN firstConceptInstant(gaap, Tail(names), fyEnds)
             ELSE IF ~concept.hasUnit \/ Len(concept.vals) = 0
                  THEN firstConceptInstant(gaap, Tail(names), fyEnds)
             ELSE LET instant == pickInstant(concept.vals, fyEnds)
                  IN  IF \E i \in 1..Len(instant) : instant[i].val # 0
                      THEN [i \in 1..Len(instant) |-> instant[i].val]
                      ELSE firstConceptInstant(gaap, Tail(names), fyEnds)

\* arr.slice(-N)
Slice(arr, N) ==
    IF N = 0 \/ N >= Len(arr) THEN arr
    ELSE SubSeq(arr, Len(arr) - N + 1, Len(arr))

\* new Date(d).getFullYear(), on day numbers
FullYear(d) == 1970 + (d \div 365)

\* return null, for the response res
NullFundamentals(res) ==
    [null |-> TRUE, masterDates |-> << >>,
     vals |-> [k \in {} |-> << >>], hist |-> [k \in {} |-> << >>]]

\* the body of fetchXbrlFundamentals; res is the response: its ok flag and
\* the us-gaap facts of its body, if any
XbrlFundamentalsOf(res) ==
    IF ~res.ok THEN NullFundamentals(res)
    ELSE IF ~res.hasGaap THEN NullFundamentals(res)
    ELSE
    LET gaap == res.gaap
        revenueArr == firstConcept(gaap, RevenueNames)
        ebitArr == firstConcept(gaap, EbitNames)
        capexArr == firstConcept(gaap, CapexNames)
        sharesDilAnnualArr == firstConcept(gaap, SharesDilNames)
        masterDates == [i \in 1..Len(revenueArr) |-> revenueArr[i].end]
    IN  IF Len(masterDates) = 0 THEN NullFundamentals(res)
        ELSE
        LET revVals == [i \in 1..Len(revenueArr) |-> revenueArr[i].val]
            ebitVals == alignToMaster(masterDates, ebitArr)
            capexAligned == alignToMaster(masterDates, capexArr)
            capexVals == [i \in 1..Len(capexAligned) |-> Abs(capexAligned[i])]
            sdDilVals == alignToMaster(masterDates, sharesDilAnnualArr)
            totalAssetsVals == firstConceptInstant(gaap, AssetsNames, masterDates)
            equityVals == firstConceptInstant(gaap, EquityNames, masterDates)
            sharesInstVals == firstConceptInstant(gaap, SharesInstNames, masterDates)
            bvpsVals ==
                [i \in 1..Len(equityVals) |->
                    LET sh == IF sdDilVals[i] # 0 THEN sdDilVals[i]
                              ELSE IF sharesInstVals[i] # 0 THEN sharesInstVals[i]
                              ELSE 1
                    IN  IF sh > 0 THEN Rat(equityVals[i], sh) ELSE RZero]
            N == Min(Len(masterDates), HistYears)
            Millions(arr) == [i \in 1..Len(arr) |-> Rat(arr[i], M)]
        IN  [null |-> FALSE,
             masterDates |-> masterDates,
             vals |-> [revenue |-> revVals, ebit |-> ebitVals, capex |-> capexVals,
                       shares_diluted |-> sdDilVals, total_assets |-> totalAssetsVals,
                       total_equity |-> equityVals, shares_inst |-> sharesInstVals,
                       bvps |-> bvpsVals],
             hist |-> [year |-> [i \in 1..N |-> FullYear(Slice(masterDates, N)[i])],
                       revenue |-> Millions(Slice(revVals, N)),
                       ebit |-> Millions(Slice(ebitVals, N)),
                       capex |-> Millions(Slice(capexVals, N)),
                       bvps |-> Slice(bvpsVals, N)]]

(***************************************************************************)
(* Engine specification: the inputs are drawn in the initial state; the    *)
(* dashboard render runs computeAll and the summary memo, then the         *)
(* football-field tab renders from the computed values.                    *)
(***************************************************************************)
MaxVaried == 2

InputValues == {Fin(-50), Fin(0), Fin(80), Fin(100), Fin(120), NaN, PosInf}
BaseValues == {Fin(0), Fin(100)}
Prices == {Fin(0), Fin(100)}

EngineIdle ==
    /\ signalValues = [m \in MethodSet |-> Fin(0)]
    /\ current_price = Fin(0)
    /\ computed = NotComputed
    /\ summaryData = NoSummary
    /\ footballField = NoFootballField

InitEngine ==
    /\ NewsIdle
    /\ ValIdle
    /\ CalcIdle
    /\ XbrlIdle
    /\ AskIdle
    /\ UploadIdle
    /\ FetchIdle
    /\ TerminalIdle
    /\ ScenarioIdle
    /\ \E base \in BaseValues, S \in SUBSET MethodSet :
          /\ Cardinality(S) <= MaxVaried
          /\ \E f \in [S -> InputValues \ {base}] :
                signalValues = [m \in MethodSet |-> IF m \in S THEN f[m] ELSE base]
    /\ current_price \in Prices
    /\ computed = NotComputed
    /\ summaryData = NoSummary
    /\ footballField = NoFootballField

RenderDashboard ==
    /\ ~computed.done
    /\ computed' = computeAll(signalValues, current_price)
    /\ summaryData' = SummaryData(signalValues, current_price)
    /\ UNCHANGED <<signalValues, current_price, footballField>>
    /\ UNCHANGED terminalVars
    /\ UNCHANGED scenarioVars
    /\ UNCHANGED fetchVars
    /\ UNCHANGED uploadVars
    /\ UNCHANGED askVars
    /\ UNCHANGED xbrlVars
    /\ UNCHANGED calcVars
    /\ UNCHANGED valVars
    /\ UNCHANGED newsVars

RenderFootballField ==
    /\ computed.done
    /\ ~footballField.done
    /\ footballField' = FootballField(signalValues)
    /\ UNCHANGED <<signalValues, current_price, computed, summaryData>>
    /\ UNCHANGED terminalVars
    /\ UNCHANGED scenarioVars
    /\ UNCHANGED fetchVars
    /\ UNCHANGED uploadVars
    /\ UNCHANGED askVars
    /\ UNCHANGED xbrlVars
    /\ UNCHANGED calcVars
    /\ UNCHANGED valVars
    /\ UNCHANGED newsVars

NextEngine ==
    \/ RenderDashboard
    \/ RenderFootballField

SpecEngine == InitEngine /\ [][NextEngine]_vars

(***************************************************************************)
(* Claims on the valuation engine.                                         *)
(***************************************************************************)
RowMethods == {computed.signalRows[i].method : i \in 1..Len(computed.signalRows)}

RowsWith(sig) ==
    {i \in 1..Len(computed.signalRows) : computed.signalRows[i].signal = sig}

FirstRow(sig) == CHOOSE i \in RowsWith(sig) : \A j \in RowsWith(sig) : i <= j

\* the value is a positive finite number
HasData(v) == v.fin /\ v.v > 0

\* C1: no row of signalRows has intrinsicValue <= 0, every row is one
\* model's own value, and buys, holds and sells count rows only, so no
\* model with a non-positive value is counted.
C1_SignalTableExcludesNonPositive ==
    computed.done =>
        /\ \A i \in 1..Len(computed.signalRows) :
              LET r == computed.signalRows[i]
              IN /\ ~JsLe(r.intrinsicValue, Fin(0))
                 /\ ~IsNaN(r.intrinsicValue)
                 /\ r.intrinsicValue = signalValues[r.method]
        /\ Cardinality(RowMethods) = Len(computed.signalRows)
        /\ computed.buys = Cardinality(RowsWith("BUY"))
        /\ computed.holds = Cardinality(RowsWith("HOLD"))
        /\ computed.sells = Cardinality(RowsWith("SELL"))

C1_Witness ==
    /\ computed.done
    /\ \E m \in MethodSet : signalValues[m] = Fin(-50)
    /\ \E m \in MethodSet : signalValues[m] = Fin(0)
    /\ computed.buys + computed.holds + computed.sells = 12

\* C2: a model whose value is non-positive or non-finite takes part in no
\* blended or consensus computation: not in the signal table, not in the
\* dashboard summary blend, not in the football-field blend.
C2_NoDataNeverBlended ==
    \A m \in MethodSet :
        ~HasData(signalValues[m]) =>
            /\ computed.done => m \notin RowMethods
            /\ summaryData.done => m \notin summaryData.inputs
            /\ footballField.done => m \notin footballField.allMethods

\* C3: the consensus is the classification with the most votes among BUY,
\* HOLD and SELL over the rows, a tie going to the tied classification met
\* first in row order; N/A rows never vote; HOLD when no row votes.
C3_ConsensusIsPlurality ==
    computed.done =>
        LET voted == {s \in {"BUY", "HOLD", "SELL"} : RowsWith(s) # {}}
            f == computed.finalSignal
        IN /\ \A i \in 1..Len(computed.counts) :
                 /\ computed.counts[i].signal \in voted
                 /\ computed.counts[i].n =
                        Cardinality(RowsWith(computed.counts[i].signal))
           /\ IF voted = {} THEN f = "HOLD"
              ELSE /\ f \in voted
                   /\ \A s \in voted \ {f} :
                         \/ Cardinality(RowsWith(f)) > Cardinality(RowsWith(s))
                         \/ /\ Cardinality(RowsWith(f)) = Cardinality(RowsWith(s))
                            /\ FirstRow(f) < FirstRow(s)

C3_Witness ==
    /\ computed.done
    /\ Cardinality(RowsWith("SELL")) = 1
    /\ Cardinality(RowsWith("BUY")) = 1
    /\ RowsWith("HOLD") = {}
    /\ FirstRow("SELL") < FirstRow("BUY")
    /\ computed.finalSignal = "SELL"

(***************************************************************************)
(* Terminal specification.  submit runs to its first await in one step;    *)
(* each later step of the async function (the fetch settling, a chunk      *)
(* read, the stream ending or failing) is a step of its own.               *)
(***************************************************************************)
MaxSubmits == 2
MaxChunks == 2

InitTerminal ==
    /\ NewsIdle
    /\ ValIdle
    /\ CalcIdle
    /\ XbrlIdle
    /\ AskIdle
    /\ UploadIdle
    /\ FetchIdle
    /\ EngineIdle
    /\ ScenarioIdle
    /\ history = << [id |-> 1, type |-> "system", content |-> Banner] >>
    /\ input = << >>
    /\ loading = FALSE
    /\ cmdHistory = << >>
    /\ cmdIndex = -1
    /\ uidCounter = 1
    /\ requests = << >>
    /\ submitLog = [calls |-> 0, pending |-> FALSE]

\* <input disabled={loading} />
InputDisabled == loading

\* onChange={(e) => setInput(e.target.value)}
OnChange(text) ==
    /\ ~InputDisabled
    /\ input' = text
    /\ UNCHANGED <<history, loading, cmdHistory, cmdIndex, uidCounter, requests, submitLog>>
    /\ UNCHANGED engineVars
    /\ UNCHANGED scenarioVars
    /\ UNCHANGED fetchVars
    /\ UNCHANGED uploadVars
    /\ UNCHANGED askVars
    /\ UNCHANGED xbrlVars
    /\ UNCHANGED calcVars
    /\ UNCHANGED valVars
    /\ UNCHANGED newsVars

\* the suggestion chips, shown while history.length <= 1 && !loading
ClickSuggestion(text) ==
    /\ Len(history) <= 1
    /\ ~loading
    /\ input' = text
    /\ UNCHANGED <<history, loading, cmdHistory, cmdIndex, uidCounter, requests, submitLog>>
    /\ UNCHANGED engineVars
    /\ UNCHANGED scenarioVars
    /\ UNCHANGED fetchVars
    /\ UNCHANGED uploadVars
    /\ UNCHANGED askVars
    /\ UNCHANGED xbrlVars
    /\ UNCHANGED calcVars
    /\ UNCHANGED valVars
    /\ UNCHANGED newsVars

\* handleKey, ArrowUp
ArrowUp ==
    /\ ~InputDisabled
    /\ LET next == IF cmdIndex + 1 < Len(cmdHistory) - 1
                   THEN cmdIndex + 1 ELSE Len(cmdHistory) - 1
       IN /\ cmdIndex' = next
          /\ input' = IF next >= 0 THEN cmdHistory[next + 1] ELSE << >>
    /\ UNCHANGED <<history, loading, cmdHistory, uidCounter, requests, submitLog>>
    /\ UNCHANGED engineVars
    /\ UNCHANGED scenarioVars
    /\ UNCHANGED fetchVars
    /\ UNCHANGED uploadVars
    /\ UNCHANGED askVars
    /\ UNCHANGED xbrlVars
    /\ UNCHANGED calcVars
    /\ UNCHANGED valVars
    /\ UNCHANGED newsVars

\* handleKey, ArrowDown
ArrowDown ==
    /\ ~InputDisabled
    /\ LET next == IF cmdIndex - 1 > -1 THEN cmdIndex - 1 ELSE -1
       IN /\ cmdIndex' = next
          /\ input' = IF next = -1 THEN << >> ELSE cmdHistory[next + 1]
    /\ UNCHANGED <<history, loading, cmdHistory, uidCounter, requests, submitLog>>
    /\ UNCHANGED engineVars
    /\ UNCHANGED scenarioVars
    /\ UNCHANGED fetchVars
    /\ UNCHANGED uploadVars
    /\ UNCHANGED askVars
    /\ UNCHANGED xbrlVars
    /\ UNCHANGED calcVars
    /\ UNCHANGED valVars
    /\ UNCHANGED newsVars

LoadingWhileRequestAsUnset == FALSE

\* setLoading(true) before the fetch
LoadingWhileRequest == TRUE

\* if (!cmd || loading) return
SubmitRefused(cmd, ld) == cmd = << >> \/ ld

\* submit(), up to its first await
Submit ==
    LET cmd == Trim(input)
        id == uidCounter + 1
        echoed == push(history, id, "input", cmd)
    IN /\ submitLog' = [calls |-> 1 - submitLog.calls, pending |-> Pending # {}]
       /\ UNCHANGED engineVars
       /\ UNCHANGED scenarioVars
       /\ UNCHANGED fetchVars
       /\ UNCHANGED uploadVars
       /\ UNCHANGED askVars
       /\ UNCHANGED xbrlVars
       /\ UNCHANGED calcVars
       /\ UNCHANGED valVars
       /\ UNCHANGED newsVars
       /\ IF SubmitRefused(cmd, loading)
          THEN UNCHANGED <<history, input, loading, cmdHistory, cmdIndex,
                           uidCounter, requests>>
          ELSE /\ Len(cmdHistory) < MaxSubmits
               /\ input' = << >>
               /\ cmdHistory' = << cmd >> \o cmdHistory
               /\ cmdIndex' = -1
               /\ IF ToLowerCase(cmd) = CLEAR
                  THEN /\ history' = << >>
                       /\ uidCounter' = id
                       /\ UNCHANGED <<loading, requests>>
                  ELSE IF ToLowerCase(cmd) = HELP
                  THEN /\ history' = push(echoed, id + 1, "system", HelpText)
                       /\ uidCounter' = id + 1
                       /\ UNCHANGED <<loading, requests>>
                  ELSE /\ history' = echoed
                       /\ uidCounter' = id
                       /\ loading' = LoadingWhileRequest
                       /\ requests' = Append(requests,
                              [phase |-> "fetching", cmd |-> cmd,
                               streamId |-> 0, acc |-> << >>])

FinallyLoadingAsKept(ld) == ld

\* finally { setLoading(false) }
FinallyLoading(ld) == FALSE

CatchPushAsSilent(h, id) == h

\* catch { push({ type: "error", ... }) }
CatchPush(h, id) == push(h, id, "error", ApiError)

\* fetch rejects, or resolves without a body: catch, then finally
FetchFails(k) ==
    /\ requests[k].phase = "fetching"
    /\ history' = CatchPush(history, uidCounter + 1)
    /\ uidCounter' = uidCounter + 1
    /\ loading' = FinallyLoading(loading)
    /\ requests' = SetRequest(k, [requests[k] EXCEPT !.phase = "failed"])
    /\ UNCHANGED <<input, cmdHistory, cmdIndex, submitLog>>
    /\ UNCHANGED engineVars
    /\ UNCHANGED scenarioVars
    /\ UNCHANGED fetchVars
    /\ UNCHANGED uploadVars
    /\ UNCHANGED askVars
    /\ UNCHANGED xbrlVars
    /\ UNCHANGED calcVars
    /\ UNCHANGED valVars
    /\ UNCHANGED newsVars

\* fetch resolves with a body: the streaming output entry is created
FetchResolves(k) ==
    /\ requests[k].phase = "fetching"
    /\ history' = push(history, uidCounter + 1, "output", << >>)
    /\ uidCounter' = uidCounter + 1
    /\ requests' = SetRequest(k, [requests[k] EXCEPT !.phase = "streaming",
                                                      !.streamId = uidCounter + 1])
    /\ UNCHANGED <<input, loading, cmdHistory, cmdIndex, submitLog>>
    /\ UNCHANGED engineVars
    /\ UNCHANGED scenarioVars
    /\ UNCHANGED fetchVars
    /\ UNCHANGED uploadVars
    /\ UNCHANGED askVars
    /\ UNCHANGED xbrlVars
    /\ UNCHANGED calcVars
    /\ UNCHANGED valVars
    /\ UNCHANGED newsVars

\* reader.read() yields a chunk
ReadChunk(k, c) ==
    /\ requests[k].phase = "streaming"
    /\ Len(requests[k].acc) < MaxChunks
    /\ LET acc == Append(requests[k].acc, c)
       IN /\ history' = SetContent(history, requests[k].streamId, acc)
          /\ requests' = SetRequest(k, [requests[k] EXCEPT !.acc = acc])
    /\ UNCHANGED <<input, loading, cmdHistory, cmdIndex, uidCounter, submitLog>>
    /\ UNCHANGED engineVars
    /\ UNCHANGED scenarioVars
    /\ UNCHANGED fetchVars
    /\ UNCHANGED uploadVars
    /\ UNCHANGED askVars
    /\ UNCHANGED xbrlVars
    /\ UNCHANGED calcVars
    /\ UNCHANGED valVars
    /\ UNCHANGED newsVars

\* reader.read() yields done: "(no response)" when nothing arrived, then finally
ReadDone(k) ==
    /\ requests[k].phase = "streaming"
    /\ history' = IF requests[k].acc = << >>
                  THEN SetContent(history, requests[k].streamId, NoResponse)
                  ELSE history
    /\ loading' = FinallyLoading(loading)
    /\ requests' = SetRequest(k, [requests[k] EXCEPT !.phase = "done"])
    /\ UNCHANGED <<input, cmdHistory, cmdIndex, uidCounter, submitLog>>
    /\ UNCHANGED engineVars
    /\ UNCHANGED scenarioVars
    /\ UNCHANGED fetchVars
    /\ UNCHANGED uploadVars
    /\ UNCHANGED askVars
    /\ UNCHANGED xbrlVars
    /\ UNCHANGED calcVars
    /\ UNCHANGED valVars
    /\ UNCHANGED newsVars

\* reader.read() rejects: catch, then finally
ReadFails(k) ==
    /\ requests[k].phase = "streaming"
    /\ history' = CatchPush(history, uidCounter + 1)
    /\ uidCounter' = uidCounter + 1
    /\ loading' = FinallyLoading(loading)
    /\ requests' = SetRequest(k, [requests[k] EXCEPT !.phase = "failed"])
    /\ UNCHANGED <<input, cmdHistory, cmdIndex, submitLog>>
    /\ UNCHANGED engineVars
    /\ UNCHANGED scenarioVars
    /\ UNCHANGED fetchVars
    /\ UNCHANGED uploadVars
    /\ UNCHANGED askVars
    /\ UNCHANGED xbrlVars
    /\ UNCHANGED calcVars
    /\ UNCHANGED valVars
    /\ UNCHANGED newsVars

NextTerminal ==
    \/ \E text \in Typed : OnChange(text)
    \/ \E text \in SUGGESTIONS : ClickSuggestion(text)
    \/ ArrowUp
    \/ ArrowDown
    \/ Submit
    \/ \E k \in 1..Len(requests) : FetchFails(k)
    \/ \E k \in 1..Len(requests) : FetchResolves(k)
    \/ \E k \in 1..Len(requests), c \in Chunks : ReadChunk(k, c)
    \/ \E k \in 1..Len(requests) : ReadDone(k)
    \/ \E k \in 1..Len(requests) : ReadFails(k)

SpecTerminal == InitTerminal /\ [][NextTerminal]_vars

\* The terminal with a network that answers: a pending fetch settles, and a
\* response stream that was opened ends or fails.
FetchSettles == \E k \in 1..Len(requests) : FetchFails(k) \/ FetchResolves(k)

StreamSettles == \E k \in 1..Len(requests) : ReadDone(k) \/ ReadFails(k)

SpecTerminalLive ==
    /\ SpecTerminal
    /\ WF_vars(FetchSettles)
    /\ WF_vars(StreamSettles)

(***************************************************************************)
(* Claims on the terminal.                                                 *)
(***************************************************************************)
\* C4: while a request is in flight a call of the submit handler changes
\* nothing (no echo, no command-history change, no new request), so at
\* most one request is in flight at any time.
C4_SubmitNoOpWhilePending ==
    /\ [](Cardinality(Pending) <= 1)
    /\ [][(submitLog' # submitLog /\ Pending # {}) =>
              UNCHANGED <<history, input, loading, cmdHistory, cmdIndex,
                          uidCounter, requests>>]_vars

C4_Witness ==
    /\ submitLog.pending
    /\ Cardinality(Pending) = 1
    /\ Len(requests) = 1
    /\ Len(cmdHistory) = 1

Accepted == Len(cmdHistory') = Len(cmdHistory) + 1

EchoShown ==
    \E i \in 1..Len(history') :
        /\ history'[i].type = "input"
        /\ history'[i].id > uidCounter
        /\ history'[i].content = cmdHistory'[1]

Settles(k, phase) ==
    requests[k].phase \in InFlight /\ requests'[k].phase = phase

FailureShown ==
    \A k \in 1..Len(requests) :
        Settles(k, "failed") =>
            /\ history' # << >>
            /\ history'[Len(history')].type = "error"
            /\ history'[Len(history')].id > uidCounter

CompletionShown ==
    \A k \in 1..Len(requests) :
        Settles(k, "done") =>
            \E i \in 1..Len(history') :
                /\ history'[i].id = requests[k].streamId
                /\ history'[i].type = "output"
                /\ history'[i].content # << >>

\* C5 as stated: every accepted submission produces a visible entry in
\* the history, even when the request fails.
C5_EverySubmissionVisible ==
    [][(Accepted => EchoShown) /\ FailureShown /\ CompletionShown]_vars

\* C5 as amended: every accepted submission other than the built-in clear
\* command adds its echo to the history at once; a request that fails adds
\* the error line, and one that completes leaves a non-empty output entry.
C5_NonClearSubmissionVisible ==
    [][/\ (Accepted /\ ToLowerCase(cmdHistory'[1]) # CLEAR) => EchoShown
       /\ FailureShown
       /\ CompletionShown]_vars

C5_Witness ==
    /\ Len(requests) = 1
    /\ requests[1].phase = "failed"
    /\ requests[1].streamId # 0
    /\ Len(history) = 4 /\ requests[1].acc = << >>
    /\ history[2].type = "input"
    /\ history[2].content = requests[1].cmd
    /\ history[4].type = "error"

\* C25: a submission made while a request is pending is dropped, not
\* queued: it starts no request then, and the step that settles the
\* pending request starts none either and clears the pending flag; and
\* every pending request ends with the flag cleared, whether the stream
\* completes or fails.
C25_PendingDroppedThenCleared ==
    /\ [][(submitLog' # submitLog /\ Pending # {}) =>
              (requests' = requests /\ cmdHistory' = cmdHistory)]_vars
    /\ [][(\E k \in 1..Len(requests) : Settles(k, "done") \/ Settles(k, "failed")) =>
              (Len(requests') = Len(requests) /\ ~loading')]_vars
    /\ (loading ~> ~loading)

C25_Witness ==
    /\ submitLog.pending
    /\ Len(requests) = 1
    /\ requests[1].phase = "failed"
    /\ requests[1].streamId # 0
    /\ ~loading

(***************************************************************************)
(* Scenario specification: the provider is mounted with its initial prop,  *)
(* then the scenario toggle, the drawer's Reset and the drawer's sliders   *)
(* act on the container.                                                   *)
(***************************************************************************)
MaxOps == 2

InitScenario ==
    /\ NewsIdle
    /\ ValIdle
    /\ CalcIdle
    /\ XbrlIdle
    /\ AskIdle
    /\ UploadIdle
    /\ FetchIdle
    /\ EngineIdle
    /\ TerminalIdle
    /\ initial \in InitialProps
    /\ assumptions = InitialAssumptions(initial)
    /\ lastOp = [n |-> 0, op |-> "none", s |-> "Base", key |-> "", value |-> 0]

\* applyScenario(s), from the scenario toggle
applyScenario(s) ==
    /\ lastOp.n < MaxOps
    /\ assumptions' = ApplyPreset(assumptions, s)
    /\ lastOp' = [n |-> lastOp.n + 1, op |-> "applyScenario", s |-> s,
                  key |-> "", value |-> 0]
    /\ UNCHANGED initial
    /\ UNCHANGED <<engineVars, terminalVars, fetchVars, uploadVars, askVars, xbrlVars, calcVars, valVars, newsVars>>

\* the drawer's Reset: applyScenario(scenario)
Reset ==
    /\ lastOp.n < MaxOps
    /\ assumptions' = ApplyPreset(assumptions, assumptions["scenario"])
    /\ lastOp' = [n |-> lastOp.n + 1, op |-> "reset", s |-> assumptions["scenario"],
                  key |-> "", value |-> 0]
    /\ UNCHANGED initial
    /\ UNCHANGED <<engineVars, terminalVars, fetchVars, uploadVars, askVars, xbrlVars, calcVars, valVars, newsVars>>

\* setAssumption(key, value), from a slider of the drawer
setAssumption(key, value) ==
    /\ lastOp.n < MaxOps
    /\ assumptions' = SetField(assumptions, key, value)
    /\ lastOp' = [n |-> lastOp.n + 1, op |-> "setAssumption", s |-> "Base",
                  key |-> key, value |-> value]
    /\ UNCHANGED initial
    /\ UNCHANGED <<engineVars, terminalVars, fetchVars, uploadVars, askVars, xbrlVars, calcVars, valVars, newsVars>>

NextScenario ==
    \/ \E s \in ScenarioKeys : applyScenario(s)
    \/ Reset
    \/ \E key \in DOMAIN FIELDS : \E value \in FIELDS[key] : setAssumption(key, value)

SpecScenario == InitScenario /\ [][NextScenario]_vars

(***************************************************************************)
(* Claims on the scenario container.                                       *)
(***************************************************************************)
Applies == lastOp'.n # lastOp.n /\ lastOp'.op \in {"applyScenario", "reset"}

FullyApplied(a, s) ==
    /\ a["scenario"] = s
    /\ \A k \in PresetFields : a[k] = SCENARIO_PRESETS[s][k]

\* C6: applyScenario(s) puts the preset's value in every preset-controlled
\* field and sets the label to s in one state change, leaving the other
\* fields alone; no state after it shows only part of the preset.
C6_ApplyScenarioAtomic ==
    /\ [][Applies =>
             /\ FullyApplied(assumptions', lastOp'.s)
             /\ DOMAIN assumptions' = DOMAIN assumptions
             /\ \A k \in DOMAIN assumptions \ (PresetFields \cup {"scenario"}) :
                    assumptions'[k] = assumptions[k]]_vars
    /\ [](lastOp.op \in {"applyScenario", "reset"} =>
             FullyApplied(assumptions, lastOp.s))

C6_Witness ==
    /\ lastOp.op = "applyScenario"
    /\ lastOp.s = "Bear"
    /\ lastOp.n = 2
    /\ initial # Empty
    /\ FullyApplied(assumptions, "Bear")

\* the preset's value for field k is specific to scenario s: it is not the
\* generic default of the Base preset
ExplicitOverride(s, k) == SCENARIO_PRESETS[s][k] # SCENARIO_PRESETS["Base"][k]

\* C7: switching scenario, and the drawer's Reset, keep the beta and the
\* tax rate seeded from the company's data unless the preset explicitly
\* overrides them.
C7_SeededBetaTaxPreserved ==
    [][Applies =>
          \A k \in {"beta", "tax_rate"} :
              (/\ k \in DOMAIN initial
               /\ assumptions[k] = initial[k]
               /\ ~ExplicitOverride(lastOp'.s, k))
              => assumptions'[k] = assumptions[k]]_vars

\* C8: setAssumption(key, value) changes the named field to the value and
\* nothing else: the scenario label and every other field keep their value.
C8_SetAssumptionFrame ==
    [][(lastOp'.n # lastOp.n /\ lastOp'.op = "setAssumption") =>
          /\ DOMAIN assumptions' = DOMAIN assumptions
          /\ assumptions'[lastOp'.key] = lastOp'.value
          /\ assumptions'["scenario"] = assumptions["scenario"]
          /\ \A k \in DOMAIN assumptions \ {lastOp'.key} :
                 assumptions'[k] = assumptions[k]]_vars

C8_Witness ==
    /\ lastOp.op = "setAssumption"
    /\ lastOp.n = 2
    /\ lastOp.key = "wacc"
    /\ assumptions["wacc"] = 200
    /\ assumptions["scenario"] = "Bear"
    /\ assumptions["yr1_g"] = SCENARIO_PRESETS["Bear"]["yr1_g"]

(***************************************************************************)
(* Orchestrator specification: the ticker page awaits fetchConfig, which   *)
(* tries the static override file and then the live pipeline.  Each await  *)
(* is a step; the fetchers of one Promise.all settle in any order.         *)
(***************************************************************************)
InitFetch ==
    /\ NewsIdle
    /\ ValIdle
    /\ CalcIdle
    /\ XbrlIdle
    /\ AskIdle
    /\ UploadIdle
    /\ EngineIdle
    /\ TerminalIdle
    /\ ScenarioIdle
    /\ fetchRun = [NoRun EXCEPT !.pc = "override"]
    /\ fetchResult = Running
    /\ pageView = "loading"

\* fetchConfig, stage 1: the static override file
OverrideFetch(o) ==
    /\ fetchRun.pc = "override"
    /\ IF o \in OverrideReturns
       THEN /\ fetchRun' = [fetchRun EXCEPT !.pc = "done", !.override = o]
            /\ fetchResult' = OverrideResult(o)
       ELSE /\ fetchRun' = [fetchRun EXCEPT
                  !.pc = "stage1", !.override = o, !.live = "running",
                  !.failed = IF o \in OverrideThrows THEN {"override"} ELSE {}]
            /\ UNCHANGED fetchResult
    /\ UNCHANGED pageView
    /\ UNCHANGED <<engineVars, terminalVars, scenarioVars, uploadVars, askVars, xbrlVars, calcVars, valVars, newsVars>>

\* after Promise.all([quoteSummary, lookupCIK]): without a filer id the
\* filing and its facts resolve to null at once
AfterStage1(run) ==
    IF {"quote", "cik"} \subseteq run.settled
    THEN [run EXCEPT !.pc = "stage2",
                     !.settled = IF run.cik = "cik" THEN @ ELSE @ \cup {"sec", "xbrl"}]
    ELSE run

\* yahooFinance.quoteSummary settles; its rejection rejects the Promise.all
\* and fetchLiveConfig, and is caught by fetchConfig
quoteSummary(o) ==
    /\ fetchRun.pc = "stage1"
    /\ "quote" \notin fetchRun.settled
    /\ IF o = "throws"
       THEN /\ fetchRun' = [fetchRun EXCEPT !.pc = "done", !.live = "threw",
                                            !.failed = @ \cup {"quote"},
                                            !.settled = @ \cup {"quote"}]
            /\ fetchResult' = CatchLive
       ELSE /\ fetchRun' = AfterStage1([fetchRun EXCEPT !.quote = "quote",
                                            !.settled = @ \cup {"quote"}])
            /\ UNCHANGED fetchResult
    /\ UNCHANGED pageView
    /\ UNCHANGED <<engineVars, terminalVars, scenarioVars, uploadVars, askVars, xbrlVars, calcVars, valVars, newsVars>>

\* lookupCIK settles: the padded filer id, or null (not listed, or caught)
lookupCIK(o) ==
    /\ fetchRun.pc = "stage1"
    /\ "cik" \notin fetchRun.settled
    /\ fetchRun' = AfterStage1([fetchRun EXCEPT
           !.cik = IF o = "found" THEN "cik" ELSE "null",
           !.failed = IF o = "throws" THEN @ \cup {"cik"} ELSE @,
           !.settled = @ \cup {"cik"}])
    /\ UNCHANGED <<fetchResult, pageView>>
    /\ UNCHANGED <<engineVars, terminalVars, scenarioVars, uploadVars, askVars, xbrlVars, calcVars, valVars, newsVars>>

\* fetchLatest10K(cik) settles: the filing, or null (no 10-K, or caught)
fetchLatest10K(o) ==
    /\ fetchRun.pc = "stage2"
    /\ "sec" \notin fetchRun.settled
    /\ fetchRun' = [fetchRun EXCEPT
           !.sec = IF o = "filing" THEN "filing" ELSE "null",
           !.failed = IF o = "throws" THEN @ \cup {"sec"} ELSE @,
           !.settled = @ \cup {"sec"}]
    /\ UNCHANGED <<fetchResult, pageView>>
    /\ UNCHANGED <<engineVars, terminalVars, scenarioVars, uploadVars, askVars, xbrlVars, calcVars, valVars, newsVars>>

\* fetchXbrlFundamentals(cik) settles: the facts, or null (status not ok,
\* no annual period, or an exception caught)
fetchXbrlFundamentals(o) ==
    /\ fetchRun.pc = "stage2"
    /\ "xbrl" \notin fetchRun.settled
    /\ fetchRun' = [fetchRun EXCEPT
           !.xbrl = IF o = "facts" THEN "facts" ELSE "null",
           !.failed = IF o \in {"throws", "notOk"} THEN @ \cup {"xbrl"} ELSE @,
           !.settled = @ \cup {"xbrl"}]
    /\ UNCHANGED <<fetchResult, pageView>>
    /\ UNCHANGED <<engineVars, terminalVars, scenarioVars, uploadVars, askVars, xbrlVars, calcVars, valVars, newsVars>>

\* fetchNews(T, companyName) settles; a feed that fails has returned []
FetchNews(yahoo, yahooFails, google, googleFails) ==
    /\ fetchRun.pc = "stage2"
    /\ "news" \notin fetchRun.settled
    /\ yahooFails => yahoo = << >>
    /\ googleFails => (google = << >> /\ Len(yahoo) < 5)
    /\ fetchRun' = [fetchRun EXCEPT
           !.news = fetchNews(yahoo, google),
           !.failed = IF yahooFails /\ (googleFails \/ google = << >>)
                      THEN @ \cup {"news"} ELSE @,
           !.settled = @ \cup {"news"}]
    /\ UNCHANGED <<fetchResult, pageView>>
    /\ UNCHANGED <<engineVars, terminalVars, scenarioVars, uploadVars, askVars, xbrlVars, calcVars, valVars, newsVars>>

\* the rest of fetchLiveConfig after the second Promise.all, and
\* fetchConfig's return { config, news, sec }
AssembleConfig ==
    /\ fetchRun.pc = "stage2"
    /\ {"sec", "xbrl", "news"} \subseteq fetchRun.settled
    /\ fetchRun' = [fetchRun EXCEPT !.pc = "done", !.live = "assembled"]
    /\ fetchResult' = [status |-> "returned", config |-> AssembledConfig(fetchRun),
                       news |-> fetchRun.news, sec |-> fetchRun.sec]
    /\ UNCHANGED pageView
    /\ UNCHANGED <<engineVars, terminalVars, scenarioVars, uploadVars, askVars, xbrlVars, calcVars, valVars, newsVars>>

\* TickerPage after await fetchConfig: if (!config) notFound()
TickerPage ==
    /\ fetchRun.pc = "done"
    /\ pageView = "loading"
    /\ pageView' = IF fetchResult.status = "threw" THEN "error"
                   ELSE IF NotConfig(fetchResult.config) THEN "notFound"
                   ELSE "dashboard"
    /\ UNCHANGED <<fetchRun, fetchResult>>
    /\ UNCHANGED <<engineVars, terminalVars, scenarioVars, uploadVars, askVars, xbrlVars, calcVars, valVars, newsVars>>

NextFetch ==
    \/ \E o \in OverrideOutcomes : OverrideFetch(o)
    \/ \E o \in {"quote", "throws"} : quoteSummary(o)
    \/ \E o \in {"found", "notListed", "throws"} : lookupCIK(o)
    \/ \E o \in {"filing", "noTenK", "throws"} : fetchLatest10K(o)
    \/ \E o \in {"facts", "notOk", "noDates", "throws"} : fetchXbrlFundamentals(o)
    \/ \E yahoo \in YahooNews, google \in GoogleNews :
          \E yahooFails, googleFails \in BOOLEAN :
              FetchNews(yahoo, yahooFails, google, googleFails)
    \/ AssembleConfig
    \/ TickerPage

SpecFetch == InitFetch /\ [][NextFetch]_vars

(***************************************************************************)
(* Claims on the orchestrator.                                             *)
(***************************************************************************)
\* no stage produced a config: the override file did not return one and the
\* live pipeline did not assemble one
NoConfigProduced ==
    /\ fetchRun.pc = "done"
    /\ fetchRun.override \notin {"wrapped", "bare"}
    /\ fetchRun.live # "assembled"

C10_FetchersCatchOwnFailure ==
    /\ fetchRun.live # "threw"
    /\ "xbrl" \in fetchRun.failed => fetchRun.xbrl = "null"
    /\ "news" \in fetchRun.failed => fetchRun.news = << >>
    /\ (fetchRun.pc = "done" /\ fetchRun.live # "notStarted") =>
           (fetchRun.live = "assembled" /\ fetchResult.config.kind = "live")

(***************************************************************************)
(* Upload specification: files are dropped on the upload panel, their      *)
(* readers fire in any order, profiles are opened and removed, and the     *)
(* ticker page a route leads to renders and runs its effect.               *)
(***************************************************************************)
MaxClock == 3

InitUpload ==
    /\ NewsIdle
    /\ ValIdle
    /\ CalcIdle
    /\ XbrlIdle
    /\ AskIdle
    /\ EngineIdle
    /\ TerminalIdle
    /\ ScenarioIdle
    /\ FetchIdle
    /\ uploadPanel = [error |-> "", fileName |-> << >>, loading |-> FALSE]
    /\ readers = {}
    /\ localStorage = [items |-> NoItems, profiles |-> << >>]
    /\ clock = 0
    /\ route = Landing
    /\ tickerPage = NoPage
    /\ uploadLog = [op |-> "none", file |-> NoFile, at |-> 0]

\* processFile(file) up to reader.readAsText(file); time passes with every
\* file the user hands over
processFile(file) ==
    /\ clock < MaxClock
    /\ file \notin readers
    /\ clock' = clock + 1
    /\ IF Rejection(file) = "name"
       THEN /\ uploadPanel' = [uploadPanel EXCEPT !.error = OnlyJson]
            /\ UNCHANGED readers
       ELSE IF Rejection(file) = "size"
       THEN /\ uploadPanel' = [uploadPanel EXCEPT !.error = TooLarge]
            /\ UNCHANGED readers
       ELSE /\ uploadPanel' = [error |-> "", fileName |-> file.name, loading |-> TRUE]
            /\ readers' = readers \cup {file}
    /\ UNCHANGED <<localStorage, route, tickerPage>>
    /\ uploadLog' = [op |-> "processFile", file |-> file, at |-> clock]
    /\ UNCHANGED <<engineVars, terminalVars, scenarioVars, fetchVars, askVars, xbrlVars, calcVars, valVars, newsVars>>

\* reader.onload: parse, check the ticker, saveConfig, router.push; quota
\* says which localStorage.setItem of saveConfig throws, if any
ReaderOnload(file, quota) ==
    /\ file \in readers
    /\ readers' = readers \ {file}
    /\ LET config == file.content.config
           thrown == IF Rejection(file) # "" THEN Rejection(file)
                     ELSE IF quota # "ok" THEN "QuotaExceeded" ELSE ""
           stored == Rejection(file) = "" /\ quota # "configThrows"
           indexed == Rejection(file) = "" /\ quota = "ok"
       IN  /\ localStorage' =
                 [items    |-> IF stored
                               THEN Spread(localStorage.items,
                                           [k \in {config.ticker} |-> config])
                               ELSE localStorage.items,
                  profiles |-> IF indexed
                               THEN SaveProfile(localStorage.profiles, config, clock)
                               ELSE localStorage.profiles]
           /\ IF thrown = ""
              THEN /\ route' = [path |-> ToUpperCase(config.ticker), by |-> file]
                   /\ tickerPage' = NoPage
                   /\ UNCHANGED uploadPanel
              ELSE /\ uploadPanel' = [uploadPanel EXCEPT
                          !.error = ErrorMessage(thrown), !.loading = FALSE]
                   /\ UNCHANGED <<route, tickerPage>>
    /\ clock' = clock + 1
    /\ uploadLog' = [op |-> "onload", file |-> file, at |-> clock]
    /\ UNCHANGED <<engineVars, terminalVars, scenarioVars, fetchVars, askVars, xbrlVars, calcVars, valVars, newsVars>>

\* reader.onerror
ReaderOnerror(file) ==
    /\ file \in readers
    /\ readers' = readers \ {file}
    /\ uploadPanel' = [uploadPanel EXCEPT !.error = ReadFailed, !.loading = FALSE]
    /\ UNCHANGED <<localStorage, clock, route, tickerPage>>
    /\ uploadLog' = [op |-> "onerror", file |-> file, at |-> clock]
    /\ UNCHANGED <<engineVars, terminalVars, scenarioVars, fetchVars, askVars, xbrlVars, calcVars, valVars, newsVars>>

\* handleDelete(ticker) on a row of the saved profiles: removeProfile
removeProfile(ticker) ==
    /\ \E i \in 1..Len(localStorage.profiles) : localStorage.profiles[i].ticker = ticker
    /\ localStorage' = [items    |-> RemoveItem(localStorage.items, ticker),
                        profiles |-> FilterOut(localStorage.profiles, ticker)]
    /\ UNCHANGED <<uploadPanel, readers, clock, route, tickerPage>>
    /\ UNCHANGED uploadLog
    /\ UNCHANGED <<engineVars, terminalVars, scenarioVars, fetchVars, askVars, xbrlVars, calcVars, valVars, newsVars>>

\* a click on a row of the saved profiles: router.push(`/${p.ticker}`)
OpenProfile(ticker) ==
    /\ \E i \in 1..Len(localStorage.profiles) : localStorage.profiles[i].ticker = ticker
    /\ route # [path |-> ticker, by |-> NoFile]
    /\ route' = [path |-> ticker, by |-> NoFile]
    /\ tickerPage' = NoPage
    /\ UNCHANGED <<uploadPanel, readers, localStorage, clock>>
    /\ UNCHANGED uploadLog
    /\ UNCHANGED <<engineVars, terminalVars, scenarioVars, fetchVars, askVars, xbrlVars, calcVars, valVars, newsVars>>

\* TickerPage for the route: fetchConfig gave null or the server's config
TickerPageLoad(server) ==
    /\ route.path # << >>
    /\ tickerPage.view = "none"
    /\ LET upper == ToUpperCase(route.path)
       IN  tickerPage' =
               IF server = "null"
               THEN [view |-> "notFound", ticker |-> upper, config |-> NoConfig,
                     effect |-> FALSE]
               ELSE [view |-> "dashboard", ticker |-> upper,
                     config |-> Config(upper, TRUE, "Server"), effect |-> FALSE]
    /\ UNCHANGED <<uploadPanel, readers, localStorage, clock, route>>
    /\ UNCHANGED uploadLog
    /\ UNCHANGED <<engineVars, terminalVars, scenarioVars, fetchVars, askVars, xbrlVars, calcVars, valVars, newsVars>>

\* the effect of TickerPageClient: prefer the stored config of the ticker
TickerPageClientEffect ==
    /\ tickerPage.view = "dashboard"
    /\ ~tickerPage.effect
    /\ LET key == tickerPage.ticker
       IN  tickerPage' =
               [tickerPage EXCEPT
                   !.effect = TRUE,
                   !.config = IF key \in DOMAIN localStorage.items
                                 /\ localStorage.items[key].ticker = key
                              THEN localStorage.items[key] ELSE @]
    /\ UNCHANGED <<uploadPanel, readers, localStorage, clock, route>>
    /\ UNCHANGED uploadLog
    /\ UNCHANGED <<engineVars, terminalVars, scenarioVars, fetchVars, askVars, xbrlVars, calcVars, valVars, newsVars>>

Tickers == { f.content.config.ticker : f \in Files }

NextUpload ==
    \/ \E file \in Files : processFile(file)
    \/ \E file \in Files : \E quota \in {"ok", "configThrows", "indexThrows"} :
          ReaderOnload(file, quota)
    \/ \E file \in Files : ReaderOnerror(file)
    \/ \E ticker \in Tickers : removeProfile(ticker)
    \/ \E ticker \in Tickers : OpenProfile(ticker)
    \/ \E server \in {"null", "config"} : TickerPageLoad(server)
    \/ TickerPageClientEffect

SpecUpload == InitUpload /\ [][NextUpload]_vars

(***************************************************************************)
(* Claims on the upload panel, the profile index and the ticker page.      *)
(***************************************************************************)
\* why an upload is invalid, in the order the panel meets the reasons
Invalid(file) ==
    IF ~EndsWith(file.name, DotJson) THEN "notJson"
    ELSE IF file.size > SizeLimit THEN "tooLarge"
    ELSE IF file.content.parse # "value" THEN "parse"
    ELSE IF ~file.content.config.hasTicker \/ file.content.config.ticker = << >>
         THEN "noTicker"
    ELSE "valid"

\* the step settles the file of the log: processFile refused it, or its
\* reader fired
SettlesFile ==
    /\ uploadLog' # uploadLog
    /\ \/ uploadLog'.op = "onload"
       \/ uploadLog'.op = "processFile" /\ Invalid(uploadLog'.file) \in {"notJson", "tooLarge"}

SpecificError(file) ==
    CASE Invalid(file) = "notJson"  -> OnlyJson
      [] Invalid(file) = "tooLarge" -> TooLarge
      [] Invalid(file) = "noTicker" -> NoTicker
      [] Invalid(file) = "parse"    ->
             ErrorMessage(IF file.content.parse = "null" THEN "TypeError"
                          ELSE "SyntaxError")

\* C11: a file that is not .json, is over the size ceiling, does not parse
\* or has no ticker makes the panel show the error of its case, and no
\* navigation is ever caused by such a file.
C11_InvalidUploadShowsError ==
    /\ [][(SettlesFile /\ Invalid(uploadLog'.file) # "valid") =>
             /\ uploadPanel'.error = SpecificError(uploadLog'.file)
             /\ route' = route
             /\ localStorage' = localStorage]_vars
    /\ [](route.by # NoFile => Invalid(route.by) = "valid")

C11_Witness ==
    /\ uploadLog.op = "onload"
    /\ Invalid(uploadLog.file) = "noTicker"
    /\ uploadLog.file.content.wrapped
    /\ uploadPanel = [error |-> NoTicker, fileName |-> JsonName, loading |-> FALSE]
    /\ route = Landing
    /\ localStorage.profiles = << >>

\* C12: the msf_profiles index never holds two entries of one ticker and
\* lists the profiles from the most recently saved to the least recently
\* saved, whatever saves and removals happened.
C12_ProfilesDedupedNewestFirst ==
    \A i, j \in 1..Len(localStorage.profiles) :
        i < j => /\ localStorage.profiles[i].ticker # localStorage.profiles[j].ticker
                 /\ localStorage.profiles[i].savedAt > localStorage.profiles[j].savedAt

C12_Witness ==
    /\ Len(localStorage.profiles) = 2
    /\ localStorage.profiles[1].ticker = << "A", "B" >>
    /\ localStorage.profiles[1].name = "Beta"
    /\ localStorage.profiles[1].savedAt = 5
    /\ localStorage.profiles[2].ticker = << "M" >>
    /\ localStorage.profiles[2].savedAt = 4
    /\ localStorage.items[<< "A", "B" >>].name = "Beta"

\* the ticker page of the route has rendered and, if it is a dashboard, its
\* effect has run
PageSettled ==
    \/ tickerPage.view = "notFound"
    \/ tickerPage.view = "dashboard" /\ tickerPage.effect

\* C13: once the page an upload navigated to has loaded, it displays the
\* uploaded config (still stored under its ticker) in place of the server's.
C13_UploadedConfigDisplayed ==
    LET config == route.by.content.config
    IN  (/\ route.by # NoFile
         /\ PageSettled
         /\ config.ticker \in DOMAIN localStorage.items
         /\ localStorage.items[config.ticker] = config)
        => (tickerPage.view = "dashboard" /\ tickerPage.config = config)

\* the tickers the msf_profiles index lists
Listed == { localStorage.profiles[i].ticker : i \in 1..Len(localStorage.profiles) }

\* C30: whatever uploads and deletions happened, one of them stopped
\* between its two storage writes included, a ticker is listed in the
\* msf_profiles index exactly when a config is stored under its msf_config_
\* key.
C30_IndexListsExactlyStoredConfigs ==
    \A ticker \in Tickers : ticker \in Listed <=> ticker \in DOMAIN localStorage.items

(***************************************************************************)
(* Assistant specification: the terminal's submit handler together with    *)
(* the endpoint that answers its request.  The endpoint handles request k  *)
(* of the terminal in entry k of askRoute.handled; the pieces the terminal *)
(* reads are the pieces the endpoint has enqueued.                         *)
(***************************************************************************)
AskTyped == { << " ", "w", "?" >> }

NotHandled == [k \in {} |-> Handling("calling", "calling", << >>, NoError)]

InitAsk ==
    /\ NewsIdle
    /\ ValIdle
    /\ CalcIdle
    /\ XbrlIdle
    /\ EngineIdle
    /\ ScenarioIdle
    /\ FetchIdle
    /\ UploadIdle
    /\ history = << [id |-> 1, type |-> "system", content |-> Banner] >>
    /\ input = << >>
    /\ loading = FALSE
    /\ cmdHistory = << >>
    /\ cmdIndex = -1
    /\ uidCounter = 1
    /\ requests = << >>
    /\ submitLog = [calls |-> 0, pending |-> FALSE]
    /\ askRoute \in [apiKey : BOOLEAN, handled : {NotHandled}]

\* the endpoint has received request k of the terminal
Handled(k) == k \in DOMAIN askRoute.handled

\* the endpoint is working on request k and the terminal still waits for it
Serving(k, phase) ==
    /\ Handled(k)
    /\ requests[k].phase \in InFlight
    /\ askRoute.handled[k].phase = phase

SetHandled(k, h) ==
    [askRoute EXCEPT !.handled = Spread(@, [j \in {k} |-> h])]

\* POST up to the await of client.chat.completions.create(...): without a
\* credential the fixed text is returned at once
RoutePost(k) ==
    /\ ~Handled(k)
    /\ requests[k].phase = "fetching"
    /\ askRoute' = SetHandled(k,
           IF ~askRoute.apiKey
           THEN Handling("keyMissing", "closed", KeyMissingBody, NoError)
           ELSE Handling("calling", "calling", << >>, NoError))
    /\ UNCHANGED <<engineVars, terminalVars, scenarioVars, fetchVars, uploadVars, xbrlVars, calcVars, valVars, newsVars>>

\* the try block throws before the response is returned: the catch answers
CreateRejects(k, e) ==
    /\ Serving(k, "calling")
    /\ askRoute' = SetHandled(k, Handling("callFailed", "closed", ErrorBody(e), e))
    /\ UNCHANGED <<engineVars, terminalVars, scenarioVars, fetchVars, uploadVars, xbrlVars, calcVars, valVars, newsVars>>

\* create resolves with the stream: the streaming response is returned
CreateResolves(k) ==
    /\ Serving(k, "calling")
    /\ askRoute' = SetHandled(k, Handling("stream", "open", << >>, NoError))
    /\ UNCHANGED <<engineVars, terminalVars, scenarioVars, fetchVars, uploadVars, xbrlVars, calcVars, valVars, newsVars>>

\* for await (const chunk of stream): if (text) controller.enqueue(...)
UpstreamChunk(k, text) ==
    /\ Serving(k, "open")
    /\ Len(askRoute.handled[k].body) < MaxChunks
    /\ askRoute' = SetHandled(k, [askRoute.handled[k] EXCEPT
           !.body = IF text = "" THEN @ ELSE Append(@, text)])
    /\ UNCHANGED <<engineVars, terminalVars, scenarioVars, fetchVars, uploadVars, xbrlVars, calcVars, valVars, newsVars>>

\* the upstream stream ends: controller.close()
UpstreamEnds(k) ==
    /\ Serving(k, "open")
    /\ askRoute' = SetHandled(k, [askRoute.handled[k] EXCEPT !.phase = "closed"])
    /\ UNCHANGED <<engineVars, terminalVars, scenarioVars, fetchVars, uploadVars, xbrlVars, calcVars, valVars, newsVars>>

\* the upstream stream throws while it is iterated: finally closes the
\* controller and start() rejects; the body ends cleanly or in error
\* according to what was still queued
UpstreamThrows(k, outcome) ==
    /\ Serving(k, "open")
    /\ askRoute' = SetHandled(k, [askRoute.handled[k] EXCEPT
                                     !.kind = "streamFailed", !.phase = outcome])
    /\ UNCHANGED <<engineVars, terminalVars, scenarioVars, fetchVars, uploadVars, xbrlVars, calcVars, valVars, newsVars>>

NextAsk ==
    \/ \E text \in AskTyped : OnChange(text)
    \/ Submit
    \/ \E k \in 1..Len(requests) : RoutePost(k)
    \/ \E k \in 1..Len(requests), e \in UpstreamErrors : CreateRejects(k, e)
    \/ \E k \in 1..Len(requests) : CreateResolves(k)
    \/ \E k \in 1..Len(requests), text \in Deltas : UpstreamChunk(k, text)
    \/ \E k \in 1..Len(requests) : UpstreamEnds(k)
    \/ \E k \in 1..Len(requests), outcome \in {"closed", "errored"} :
          UpstreamThrows(k, outcome)
    \/ \E k \in 1..Len(requests) :
          /\ ~Handled(k)
          /\ FetchFails(k)
    \/ \E k \in 1..Len(requests) :
          /\ Handled(k)
          /\ askRoute.handled[k].phase # "calling"
          /\ FetchResolves(k)
    \/ \E k \in 1..Len(requests) :
          /\ Handled(k)
          /\ askRoute.handled[k].phase # "errored"
          /\ Len(requests[k].acc) < Len(askRoute.handled[k].body)
          /\ ReadChunk(k, askRoute.handled[k].body[Len(requests[k].acc) + 1])
    \/ \E k \in 1..Len(requests) :
          /\ Handled(k)
          /\ askRoute.handled[k].phase = "closed"
          /\ Len(requests[k].acc) = Len(askRoute.handled[k].body)
          /\ ReadDone(k)
    \/ \E k \in 1..Len(requests) :
          /\ Handled(k)
          /\ askRoute.handled[k].phase = "errored"
          /\ ReadFails(k)

SpecAsk == InitAsk /\ [][NextAsk]_vars

(***************************************************************************)
(* Claims on the assistant endpoint and its rendering in the terminal.     *)
(***************************************************************************)
KeyMissingLine ==
    << "OpenAI API key not configured. Add OPENAI_API_KEY to your .env.local file." >>

\* {message} of a failure of the call
MessageOf(e) == IF e.isError THEN e.message ELSE "Unknown error"

\* the terminal's request k stops waiting in this step
AskSettles(k) ==
    /\ requests[k].phase \in InFlight
    /\ requests'[k].phase \notin InFlight

\* after the step the output entry of request k shows one of the texts
OutputShows(k, texts) ==
    \E i \in 1..Len(history') :
        /\ history'[i].id = requests'[k].streamId
        /\ history'[i].type = "output"
        /\ history'[i].content \in texts

Unavailable(k) ==
    /\ Handled(k)
    /\ askRoute.handled[k].kind \in {"keyMissing", "callFailed"}

\* C14 as stated: when the credential is missing or the upstream call fails,
\* the terminal stays usable and its history shows a fixed explanatory line,
\* the same whatever the failure was.
C14_FixedErrorLine ==
    [][\A k \in 1..Len(requests) :
          (AskSettles(k) /\ Unavailable(k)) =>
              /\ loading' = FALSE
              /\ OutputShows(k, {KeyMissingLine, ApiError})]_vars

\* C14 as amended: when the credential is missing the terminal shows the
\* endpoint's fixed text, when the upstream call fails it shows "Error: "
\* followed by the failure's message, and when the endpoint is not reached
\* it adds its own fixed error line; in each case it stays usable.
C14_ExplanatoryLineRendered ==
    [][\A k \in 1..Len(requests) :
          AskSettles(k) =>
              /\ loading' = FALSE
              /\ (Handled(k) /\ askRoute.handled[k].kind = "keyMissing")
                     => OutputShows(k, {KeyMissingLine})
              /\ (Handled(k) /\ askRoute.handled[k].kind = "callFailed")
                     => OutputShows(k, {<< "Error: ",
                                           MessageOf(askRoute.handled[k].thrown) >>})
              /\ ~Handled(k)
                     => /\ history'[Len(history')].type = "error"
                        /\ history'[Len(history')].content = ApiError]_vars

C14_Witness ==
    /\ Len(requests) = 1
    /\ requests[1].phase = "done"
    /\ Handled(1)
    /\ askRoute.handled[1].kind = "callFailed"
    /\ ~loading
    /\ Len(history) = 3
    /\ history[3].type = "output"
    /\ history[3].content = << "Error: ", "Connection error." >>

\* C15: whenever the completion call fails, the endpoint's response is plain
\* text and its whole body is "Error: " followed by the failure's message.
C15_CallFailureAnswered ==
    \A k \in DOMAIN askRoute.handled :
        askRoute.handled[k].kind = "callFailed" =>
            /\ askRoute.handled[k].contentType = "text/plain; charset=utf-8"
            /\ askRoute.handled[k].phase = "closed"
            /\ askRoute.handled[k].body =
                   << "Error: ", MessageOf(askRoute.handled[k].thrown) >>

C15_Witness ==
    /\ 2 \in DOMAIN askRoute.handled
    /\ askRoute.handled[2].kind = "callFailed"
    /\ ~askRoute.handled[2].thrown.isError
    /\ askRoute.handled[2].body = << "Error: ", "Unknown error" >>
    /\ requests[2].acc = << "Error: " >>

(***************************************************************************)
(* Filing-facts specification: the arguments are drawn in the initial      *)
(* state, either a list of unit entries or the concepts of the revenue     *)
(* tags, and the two functions are applied.                                *)
(***************************************************************************)
MaxEntries == 3

\* unit entries as companyfacts gives them: annual and quarterly forms,
\* durations at and around the limits, missing dates, amendments
Entries ==
    { XbrlUnit("10-K",   635, 1000, 1060, 10),
      XbrlUnit("10-K/A", 635, 1000, 1100, 11),
      XbrlUnit("10-Q",   910, 1000, 1030, 3),
      XbrlUnit("10-K",   910, 1000, 1200, 4),
      XbrlUnit("10-Q",   635, 1000, 1300, 5),
      XbrlUnit("10-K",   700, 1000, 0,    7),
      XbrlUnit("20-F",   1000, 1365, 1400, 20),
      XbrlUnit("40-F",   965, 1365, 1400, 8),
      XbrlUnit("10-K",   964, 1365, 1600, 9),
      XbrlUnit("10-K",   0,   1365, 1500, 6),
      XbrlUnit("",       635, 1000, 1700, 12) }

EntryLists == UNION { [1..n -> Entries] : n \in 0..MaxEntries }

Concepts ==
    { Concept(FALSE, FALSE, << >>),
      Concept(TRUE, FALSE, << >>),
      Concept(TRUE, TRUE, << >>),
      Concept(TRUE, TRUE, << XbrlUnit("10-Q", 910, 1000, 1030, 3) >>),
      Concept(TRUE, TRUE, << XbrlUnit("10-K", 635, 1000, 1060, 10),
                             XbrlUnit("10-K/A", 635, 1000, 1100, 11) >>),
      Concept(TRUE, TRUE, << XbrlUnit("20-F", 1000, 1365, 1400, 20),
                             XbrlUnit("10-K", 635, 1000, 1060, 10) >>) }

InitXbrl ==
    /\ NewsIdle
    /\ ValIdle
    /\ CalcIdle
    /\ EngineIdle
    /\ TerminalIdle
    /\ ScenarioIdle
    /\ FetchIdle
    /\ UploadIdle
    /\ AskIdle
    /\ \/ xbrlIn \in [values : EntryLists, gaap : {NoGaap}]
       \/ xbrlIn \in [values : {<< >>}, gaap : [DOMAIN NoGaap -> Concepts]]
    /\ xbrlOut = NoXbrlOut

ApplyPickAnnual ==
    /\ "pickAnnual" \notin xbrlOut.done
    /\ xbrlOut' = [xbrlOut EXCEPT !.done = @ \cup {"pickAnnual"},
                                  !.annual = pickAnnual(xbrlIn.values)]
    /\ UNCHANGED xbrlIn
    /\ UNCHANGED <<engineVars, terminalVars, scenarioVars, fetchVars, uploadVars, askVars, calcVars, valVars, newsVars>>

ApplyFirstConcept ==
    /\ "firstConcept" \notin xbrlOut.done
    /\ xbrlOut' = [xbrlOut EXCEPT !.done = @ \cup {"firstConcept"},
                                  !.series = firstConcept(xbrlIn.gaap, RevenueNames)]
    /\ UNCHANGED xbrlIn
    /\ UNCHANGED <<engineVars, terminalVars, scenarioVars, fetchVars, uploadVars, askVars, calcVars, valVars, newsVars>>

NextXbrl == ApplyPickAnnual \/ ApplyFirstConcept

SpecXbrl == InitXbrl /\ [][NextXbrl]_vars

(***************************************************************************)
(* Claims on pickAnnual and firstConcept.                                  *)
(***************************************************************************)
\* an entry qualifies: annual form, both dates, 300 to 400 days
Qualifying(v) ==
    /\ v.form \in {"10-K", "10-K/A", "20-F", "40-F"}
    /\ v.start # 0
    /\ v.end # 0
    /\ v.end - v.start \in 300..400

Range(seq) == {seq[i] : i \in 1..Len(seq)}

QualifyingAt(values, end) == {v \in Range(values) : Qualifying(v) /\ v.end = end}

HasAnnual(gaap, name) ==
    /\ gaap[name].present
    /\ gaap[name].hasUnit
    /\ \E v \in Range(gaap[name].vals) : Qualifying(v)

\* C17: firstConcept returns the annual series of the first tag of the list
\* that has an annual entry, skipping absent tags, empty arrays and tags
\* with only non-annual entries; it returns [] when no tag has one.
C17_FirstConceptFirstAnnualTag ==
    "firstConcept" \in xbrlOut.done =>
        LET with == {i \in 1..Len(RevenueNames) : HasAnnual(xbrlIn.gaap, RevenueNames[i])}
        IN  IF with = {} THEN xbrlOut.series = << >>
            ELSE LET first == CHOOSE i \in with : \A j \in with : i <= j
                 IN  /\ xbrlOut.series # << >>
                     /\ xbrlOut.series = pickAnnual(xbrlIn.gaap[RevenueNames[first]].vals)

C17_Witness ==
    /\ "firstConcept" \in xbrlOut.done
    /\ xbrlIn.gaap[RevenueNames[1]] =
           Concept(TRUE, TRUE, << XbrlUnit("10-Q", 910, 1000, 1030, 3) >>)
    /\ xbrlIn.gaap[RevenueNames[2]] = Concept(TRUE, TRUE, << >>)
    /\ Len(xbrlIn.gaap[RevenueNames[3]].vals) = 2
    /\ xbrlOut.series = << XbrlUnit("10-K/A", 635, 1000, 1100, 11) >>


(***************************************************************************)
(* Valuation-function specification: the arguments of one function are     *)
(* drawn in the initial state and each function is applied once.           *)
(***************************************************************************)
\* intrinsic values around the thresholds of the markets below
Intrinsics ==
    {Fin(n) : n \in {-10, 0, 17, 22, 23, 24, 84, 85, 86, 114, 115, 116}}

Markets == {Fin(-100), Fin(0), Fin(20), Fin(100)}

\* rf 4.3%, beta 0 or 1.2, erp 5.5%, kd 4.3%, 5% or 16%, T 0 or 25%
WaccInputs ==
    [rf : {43}, beta : {0, 12}, erp : {55}, kd : {43, 50, 160}, T : {0, 25},
     E : {0, 8000}, D : {0, 3000}]

\* plowback and payout are complements; a baseline with plowback 0 falls
\* back to 1 - payout
Baselines ==
    {[roe |-> roe, plowback_ratio |-> pb[1], payout_ratio |-> pb[2], eps |-> 4] :
        roe \in {0, 100, 200}, pb \in {<<999, 1>>, <<700, 300>>, <<0, 400>>}}

Kes == {50, 98, 150}

WithSignalArgs(x, m) == [NoCalcIn EXCEPT !.intrinsic = x, !.market = m]

WithWaccArgs(w) ==
    [NoCalcIn EXCEPT !.rf = w.rf, !.beta = w.beta, !.erp = w.erp, !.kd = w.kd,
                     !.T = w.T, !.E = w.E, !.D = w.D]

WithJpeArgs(B, ke) == [NoCalcIn EXCEPT !.B = B, !.a = [yr1_g |-> 3], !.ke = ke]

InitCalc ==
    /\ NewsIdle
    /\ ValIdle
    /\ EngineIdle
    /\ TerminalIdle
    /\ ScenarioIdle
    /\ FetchIdle
    /\ UploadIdle
    /\ AskIdle
    /\ XbrlIdle
    /\ \/ \E x \in Intrinsics, m \in Markets : calcIn = WithSignalArgs(x, m)
       \/ \E w \in WaccInputs : calcIn = WithWaccArgs(w)
       \/ \E B \in Baselines, ke \in Kes : calcIn = WithJpeArgs(B, ke)
    /\ calcOut = NoCalcOut

ApplyAssignSignal ==
    /\ "assignSignal" \notin calcOut.done
    /\ calcOut' = [calcOut EXCEPT !.done = @ \cup {"assignSignal"},
                                  !.signal = assignSignal(calcIn.intrinsic, calcIn.market)]
    /\ UNCHANGED calcIn
    /\ UNCHANGED <<engineVars, terminalVars, scenarioVars, fetchVars, uploadVars, askVars, xbrlVars, valVars, newsVars>>

ApplyComputeWACC ==
    /\ "computeWACC" \notin calcOut.done
    /\ calcOut' = [calcOut EXCEPT !.done = @ \cup {"computeWACC"},
                                  !.wacc = computeWACC(calcIn.rf, calcIn.beta, calcIn.erp,
                                                       calcIn.kd, calcIn.T, calcIn.E, calcIn.D)]
    /\ UNCHANGED calcIn
    /\ UNCHANGED <<engineVars, terminalVars, scenarioVars, fetchVars, uploadVars, askVars, xbrlVars, valVars, newsVars>>

ApplyComputeJustifiedPE ==
    /\ "computeJustifiedPE" \notin calcOut.done
    /\ calcOut' = [calcOut EXCEPT !.done = @ \cup {"computeJustifiedPE"},
                                  !.jpe = computeJustifiedPE(calcIn.B, calcIn.a, calcIn.ke)]
    /\ UNCHANGED calcIn
    /\ UNCHANGED <<engineVars, terminalVars, scenarioVars, fetchVars, uploadVars, askVars, xbrlVars, valVars, newsVars>>

NextCalc == ApplyAssignSignal \/ ApplyComputeWACC \/ ApplyComputeJustifiedPE

SpecCalc == InitCalc /\ [][NextCalc]_vars

(***************************************************************************)
(* Claims on the valuation functions.                                      *)
(***************************************************************************)
\* C18: assignSignal returns N/A whenever market <= 0; otherwise BUY if
\* intrinsic > 1.15 x market, SELL if intrinsic < 0.85 x market, and HOLD
\* in every other case, including exactly at either boundary.
C18_AssignSignalThresholds ==
    "assignSignal" \in calcOut.done =>
        LET x == calcIn.intrinsic.v
            m == calcIn.market.v
        IN  calcOut.signal =
                IF m <= 0 THEN "N/A"
                ELSE IF 100 * x > 115 * m THEN "BUY"
                ELSE IF 100 * x < 85 * m THEN "SELL"
                ELSE "HOLD"

\* a fraction against an integer, by cross-multiplication
FracLt(f, k) == f.num < k * f.den
FracGt(f, k) == f.num > k * f.den
FracEq(f, k) == f.num = k * f.den

StrictlyBetween(w) ==
    \/ FracGt(w.wacc, w.kd_after_tax) /\ FracLt(w.wacc, w.ke)
    \/ FracGt(w.wacc, w.ke) /\ FracLt(w.wacc, w.kd_after_tax)

\* C19 as stated: for all valid inputs with E >= 0, D >= 0 and E + D > 0
\* the WACC lies strictly between the after-tax cost of debt and the cost
\* of equity.
C19_WaccStrictlyBetween ==
    ("computeWACC" \in calcOut.done /\ calcIn.E + calcIn.D > 0) =>
        StrictlyBetween(calcOut.wacc)

\* C19: the WACC lies strictly between the after-tax cost of debt and the
\* cost of equity when E > 0, D > 0 and the two costs differ; with D = 0 it
\* equals the cost of equity and with E = 0 (D > 0) the after-tax cost of
\* debt.
C19_WaccBetween ==
    "computeWACC" \in calcOut.done =>
        LET w == calcOut.wacc
        IN  /\ (calcIn.E > 0 /\ calcIn.D > 0 /\ w.ke # w.kd_after_tax) =>
                   StrictlyBetween(w)
            /\ calcIn.D = 0 => FracEq(w.wacc, w.ke)
            /\ (calcIn.E = 0 /\ calcIn.D > 0) => FracEq(w.wacc, w.kd_after_tax)

C19_Witness ==
    /\ "computeWACC" \in calcOut.done
    /\ calcIn.E = 8000
    /\ calcIn.D = 3000
    /\ calcOut.wacc.ke = 10900
    /\ calcOut.wacc.kd_after_tax = 3750
    /\ calcOut.wacc.wacc = Frac(98450000, 11000)

\* C20: computeJustifiedPE returns price 0 and justified P/E 0 whenever the
\* cost of equity is at or below the growth rate ROE x plowback.
C20_JustifiedPEZeroWhenKeAtOrBelowG ==
    "computeJustifiedPE" \in calcOut.done =>
        LET B == calcIn.B
            roe == IF B.roe > 0 THEN B.roe ELSE 100
            plowback == IF B.plowback_ratio > 0 THEN B.plowback_ratio
                        ELSE 1000 - B.payout_ratio
        IN  calcIn.ke * 1000 <= roe * plowback =>
                /\ calcOut.jpe.pps_jpe.num = 0
                /\ calcOut.jpe.justifiedPE.num = 0


(***************************************************************************)
(* Projection-pipeline specification: a Baseline, an Assumptions object    *)
(* and two costs of equity are drawn in the initial state; the growth      *)
(* schedule, the pro-forma, the discounted models of computeAll and the    *)
(* justified P/E at the two costs of equity are each computed once.        *)
(***************************************************************************)
ValBaselines ==
    {[BaseBaseline EXCEPT !.roe = roe, !.plowback_ratio = pb[1],
                          !.payout_ratio = pb[2], !.dps = dps] :
        roe \in {150, 200}, pb \in {<<600, 400>>, <<700, 300>>}, dps \in {0, 2}}

\* five projection years fading from yr3_g (-5%, 0 or 25%) to lt_g = 0;
\* CAPM ke is 25% (rf 5%, beta 2, erp 10%) or 0 (rf 0, beta 0)
FiveYearAssumptions ==
    {Spread(DEFAULT_ASSUMPTIONS,
            [yr1_g |-> 0, yr2_g |-> 0, yr3_g |-> y3, lt_g |-> 0,
             proj_years_n |-> 5, terminal_g |-> tg, wacc |-> 250,
             cost_of_equity |-> coe, target_ebitda_m |-> tm, capex_pct |-> 50,
             exit_mult |-> 10000, tax_rate |-> 250, hl |-> 2000,
             rf |-> capm[1], beta |-> capm[2], erp |-> 100, cost_of_debt |-> 50]) :
        y3 \in {-50, 0, 250}, tg \in {0, 250}, coe \in {250, 500},
        tm \in {350, 400}, capm \in {<<50, 2000>>, <<0, 0>>}}

\* three projection years without growth; CAPM ke is 4% (rf 1%, beta 1,
\* erp 3%), terminal growth 2% or 5%
ThreeYearAssumptions ==
    {Spread(DEFAULT_ASSUMPTIONS,
            [yr1_g |-> 0, yr2_g |-> 0, yr3_g |-> 0, lt_g |-> 0,
             proj_years_n |-> 3, terminal_g |-> tg, wacc |-> w,
             cost_of_equity |-> coe, target_ebitda_m |-> 400, capex_pct |-> 50,
             exit_mult |-> 10000, tax_rate |-> 250, hl |-> 2000,
             rf |-> 10, beta |-> 1000, erp |-> 30, cost_of_debt |-> 50]) :
        tg \in {20, 50}, w \in {40, 250}, coe \in {40, 250}}

KePairs == {<<90, 120>>, <<98, 120>>, <<50, 98>>}

InitVal ==
    /\ NewsIdle
    /\ EngineIdle
    /\ TerminalIdle
    /\ ScenarioIdle
    /\ FetchIdle
    /\ UploadIdle
    /\ AskIdle
    /\ XbrlIdle
    /\ CalcIdle
    /\ valIn \in [B : ValBaselines,
                  a : FiveYearAssumptions \cup ThreeYearAssumptions,
                  kes : KePairs]
    /\ valOut = NoValOut

ApplyBuildGrowthSchedule ==
    /\ "buildGrowthSchedule" \notin valOut.done
    /\ valOut' = [valOut EXCEPT !.done = @ \cup {"buildGrowthSchedule"},
                                !.growthSchedule = buildGrowthSchedule(valIn.a)]
    /\ UNCHANGED valIn
    /\ UNCHANGED <<engineVars, terminalVars, scenarioVars, fetchVars, uploadVars, askVars, xbrlVars, calcVars, newsVars>>

ApplyBuildProforma ==
    /\ "buildProforma" \notin valOut.done
    /\ valOut' = [valOut EXCEPT !.done = @ \cup {"buildProforma"},
                                !.proforma = buildProforma(valIn.B,
                                                 buildGrowthSchedule(valIn.a),
                                                 valIn.a)]
    /\ UNCHANGED valIn
    /\ UNCHANGED <<engineVars, terminalVars, scenarioVars, fetchVars, uploadVars, askVars, xbrlVars, calcVars, newsVars>>

ApplyComputeAll ==
    /\ "computeAll" \notin valOut.done
    /\ valOut' = [valOut EXCEPT !.done = @ \cup {"computeAll"},
                                !.models = DiscountedModels(valIn.B, valIn.a)]
    /\ UNCHANGED valIn
    /\ UNCHANGED <<engineVars, terminalVars, scenarioVars, fetchVars, uploadVars, askVars, xbrlVars, calcVars, newsVars>>

\* computeJustifiedPE(B, a, ke) at the lower and at the higher ke
ApplyJustifiedPEPair ==
    /\ "computeJustifiedPE" \notin valOut.done
    /\ valOut' = [valOut EXCEPT
           !.done = @ \cup {"computeJustifiedPE"},
           !.jpe = [k \in 1..2 |->
                       computeJustifiedPE(valIn.B,
                                          [yr1_g |-> valIn.a.yr1_g \div 10],
                                          valIn.kes[k])]]
    /\ UNCHANGED valIn
    /\ UNCHANGED <<engineVars, terminalVars, scenarioVars, fetchVars, uploadVars, askVars, xbrlVars, calcVars, newsVars>>

NextVal ==
    \/ ApplyBuildGrowthSchedule
    \/ ApplyBuildProforma
    \/ ApplyComputeAll
    \/ ApplyJustifiedPEPair

SpecVal == InitVal /\ [][NextVal]_vars


(***************************************************************************)
(* Claims on the projection pipeline.                                      *)
(***************************************************************************)
\* the justified P/E and the implied price at the lower (1) and the higher
\* (2) cost of equity
PairPE(k) == Rat(valOut.jpe[k].justifiedPE.num, valOut.jpe[k].justifiedPE.den)
PairPrice(k) == Rat(valOut.jpe[k].pps_jpe.num, valOut.jpe[k].pps_jpe.den)

\* ROE x plowback as computeJustifiedPE takes them, in millionths
SustainableGrowth(B) ==
    (IF B.roe > 0 THEN B.roe ELSE 100)
        * (IF B.plowback_ratio > 0 THEN B.plowback_ratio ELSE 1000 - B.payout_ratio)

Between(x, a, b) ==
    \/ RLt(a, x) /\ RLt(x, b)
    \/ RLt(b, x) /\ RLt(x, a)

Distance(x, y) == IF RLe(y, x) THEN RSub(x, y) ELSE RSub(y, x)

\* C22 as stated: for proj_years_n = 5 with yr3_g different from lt_g the
\* year-4 and year-5 rates each lie strictly between yr3_g and lt_g, and
\* the year-5 rate is closer to lt_g than the year-4 rate.
C22_FadeStrictlyBetween ==
    ( /\ "buildGrowthSchedule" \in valOut.done
      /\ valIn.a.proj_years_n = 5
      /\ valIn.a.yr3_g # valIn.a.lt_g ) =>
        LET yr3_g == Milli(valIn.a.yr3_g)
            lt_g == Milli(valIn.a.lt_g)
            g == valOut.growthSchedule
        IN  /\ Between(g[4], yr3_g, lt_g)
            /\ Between(g[5], yr3_g, lt_g)
            /\ RLt(Distance(g[5], lt_g), Distance(g[4], lt_g))

\* C22: for proj_years_n = 5 with yr3_g different from lt_g the year-4 rate
\* lies strictly between yr3_g and lt_g (half way) and the year-5 rate
\* equals lt_g.
C22_FadeReachesLongTerm ==
    ( /\ "buildGrowthSchedule" \in valOut.done
      /\ valIn.a.proj_years_n = 5
      /\ valIn.a.yr3_g # valIn.a.lt_g ) =>
        LET yr3_g == Milli(valIn.a.yr3_g)
            lt_g == Milli(valIn.a.lt_g)
            g == valOut.growthSchedule
        IN  /\ Len(g) = 5
            /\ Between(g[4], yr3_g, lt_g)
            /\ Distance(g[4], lt_g) = Distance(g[4], yr3_g)
            /\ g[5] = lt_g

C22_Witness ==
    /\ "buildGrowthSchedule" \in valOut.done
    /\ valIn.a.proj_years_n = 5
    /\ valIn.a.yr3_g = 250
    /\ valIn.a.lt_g = 0
    /\ valOut.growthSchedule = << RZero, RZero, Rat(1, 4), Rat(1, 8), RZero >>

\* C23: in every model, when the discount rate is at or below the
\* corresponding growth rate the model returns zero: FCFF at wacc, the
\* 2-stage DDM at the cost of equity it discounts with, FCFE, Residual
\* Income and H-Model at ke against terminal growth, the justified
\* multiples at ke against ROE x plowback.
C23_ZeroWhenDiscountAtOrBelowGrowth ==
    "computeAll" \in valOut.done =>
        LET a == valIn.a
            m == valOut.models
            ke == IF RGt(m.ke_calc, RZero) THEN m.ke_calc ELSE Milli(a.cost_of_equity)
            g == Milli(a.terminal_g)
        IN  /\ a.wacc <= a.terminal_g => m.pps_fcff = RZero
            /\ a.cost_of_equity <= a.terminal_g => m.pps_ddm = RZero
            /\ RLe(ke, g) => m.pps_fcfe = RZero /\ m.pps_ri = RZero /\ m.pps_hddm = RZero
            /\ RLe(ke, Rat(SustainableGrowth(valIn.B), 1000000)) =>
                   m.pps_jpe = RZero /\ m.pps_jpb = RZero

\* C27: computeAll values FCFE, Residual Income, both DDMs, Justified P/E
\* and Justified P/B with the CAPM-derived cost of equity rf + beta x erp,
\* never with the manual cost_of_equity.
C27_Level2ModelsUseCapmKe ==
    "computeAll" \in valOut.done =>
        LET B == valIn.B
            a == valIn.a
            m == valOut.models
            capm == RAdd(Milli(a.rf), RMul(Milli(a.beta), Milli(a.erp)))
            proforma == buildProforma(B, buildGrowthSchedule(a), a)
        IN  /\ m.pps_fcfe = computeFCFE(proforma, B, a, capm)
            /\ m.pps_ri = computeRI(B, a, capm)
            /\ m.pps_hddm = computeHModelDDM(B, a, capm)
            /\ m.pps_ddm = TwoStageDDM(B, a, proforma, capm)
            /\ m.pps_jpb = computeJustifiedPB(B, a, capm)

\* C28: the row of zero-indexed projection year i has EBITDA margin
\* baseline + ((i+1)/horizon) x (target_ebitda_m - baseline), the final
\* year's margin equals target_ebitda_m, and the cost ratios stay at their
\* baseline levels.
C28_MarginGlidesToTarget ==
    "buildProforma" \in valOut.done =>
        LET B == valIn.B
            rows == valOut.proforma
            n == Len(rows)
        IN  /\ \A k \in 1..n :
                   /\ rows[k].ebitda_margin =
                          RAdd(Milli(B.ebitda_margin),
                               RMul(Rat(k, n),
                                    Milli(valIn.a.target_ebitda_m - B.ebitda_margin)))
                   /\ RDiv(rows[k].cogs, rows[k].revenue) = Rat(B.cogs, B.revenue)
                   /\ RDiv(rows[k].sga, rows[k].revenue) = Rat(B.sga, B.revenue)
            /\ rows[n].ebitda_margin = Milli(valIn.a.target_ebitda_m)


(***************************************************************************)
(* News-tagging specification: a headline of up to MaxWords words is drawn *)
(* in the initial state and sentiment is applied to it.                    *)
(***************************************************************************)
MaxWords == 2

HeadlineWords ==
    { << "b", "e", "a", "t" >>,
      << "B", "e", "a", "t", "s" >>,
      << "m", "i", "s", "s" >>,
      << "a", "g", "a", "i", "n" >>,
      << "C", "U", "T" >>,
      << "w", "i", "n", "-", "w", "i", "n" >>,
      << "r", "i", "s", "k" >>,
      << "c", "f", "o" >> }

RECURSIVE Join(_)
Join(ws) ==
    IF ws = << >> THEN << >>
    ELSE IF Len(ws) = 1 THEN ws[1]
    ELSE ws[1] \o << " " >> \o Join(Tail(ws))

Headlines ==
    {Join(ws) : ws \in UNION {[1..n -> HeadlineWords] : n \in 0..MaxWords}}

InitNews ==
    /\ EngineIdle
    /\ TerminalIdle
    /\ ScenarioIdle
    /\ FetchIdle
    /\ UploadIdle
    /\ AskIdle
    /\ XbrlIdle
    /\ CalcIdle
    /\ ValIdle
    /\ newsText \in Headlines
    /\ newsSentiment = "none"

ApplySentiment ==
    /\ newsSentiment = "none"
    /\ newsSentiment' = sentiment(newsText)
    /\ UNCHANGED newsText
    /\ UNCHANGED <<engineVars, terminalVars, scenarioVars, fetchVars, uploadVars, askVars, xbrlVars, calcVars, valVars>>

NextNews == ApplySentiment

SpecNews == InitNews /\ [][NextNews]_vars

(***************************************************************************)
(* Claims on news tagging.                                                 *)
(***************************************************************************)
\* the number of places of the lower-cased text where kw starts
Occurrences(text, kw) ==
    LET lower == ToLowerCase(text)
    IN  Cardinality({i \in 0..(Len(lower) - Len(kw)) :
                        SubSeq(lower, i + 1, i + Len(kw)) = kw})

RECURSIVE SumOccurrences(_, _, _)
SumOccurrences(text, kws, n) ==
    IF n = 0 THEN 0
    ELSE SumOccurrences(text, kws, n - 1) + Occurrences(text, kws[n])

\* the number of keywords of the list that occur at least once
KeywordsPresent(text, kws) ==
    Cardinality({i \in 1..Len(kws) : Occurrences(text, kws[i]) >= 1})

Verdict(pos, neg) ==
    IF pos > neg THEN "Positive" ELSE IF neg > pos THEN "Negative" ELSE "Neutral"

\* C24 as stated: sentiment counts the case-insensitive occurrences of the
\* positive and of the negative keywords and returns Positive iff there are
\* strictly more positive occurrences, Negative iff strictly more negative
\* ones, Neutral when the counts are equal.
C24_SentimentByOccurrences ==
    newsSentiment # "none" =>
        newsSentiment =
            Verdict(SumOccurrences(newsText, POSITIVE_KW, Len(POSITIVE_KW)),
                    SumOccurrences(newsText, NEGATIVE_KW, Len(NEGATIVE_KW)))

\* C24: sentiment counts, case-insensitively, the positive keywords and the
\* negative keywords that occur in the text at least once (a keyword that
\* occurs several times counts once) and returns Positive iff more positive
\* keywords occur, Negative iff more negative ones, Neutral when the counts
\* are equal, zero and zero included.
C24_SentimentByKeywordsPresent ==
    newsSentiment # "none" =>
        newsSentiment =
            Verdict(KeywordsPresent(newsText, POSITIVE_KW),
                    KeywordsPresent(newsText, NEGATIVE_KW))

C24_Witness ==
    /\ newsText = Join(<< << "C", "U", "T" >>, << "B", "e", "a", "t", "s" >> >>)
    /\ newsSentiment = "Neutral"


(***************************************************************************)
(* Fundamentals specification: fetchXbrlFundamentals on a companyfacts     *)
(* response.  The facts hold revenue for the first n fiscal years, and the *)
(* other tags with entries at, on the edge of and outside the matching     *)
(* windows, for every year or every second year.                           *)
(***************************************************************************)
MaxYears == 6

YearEnd(k) == 1000 + 365 * (k - 1)

\* annual duration entries of every step-th year of the first n, ending
\* offset days after the fiscal year end, valued unit times the year
DurationVals(n, offset, step, unit) ==
    [j \in 1..((n + step - 1) \div step) |->
        LET end == YearEnd(1 + (j - 1) * step) + offset
        IN  XbrlUnit("10-K", end - 365, end, end + 60, unit * (1 + (j - 1) * step))]

\* instant entries of the first n years under the form, and an amendment
\* of the first year filed later
InstantVals(n, offset, form, base) ==
    [k \in 1..n |-> XbrlUnit(form, 0, YearEnd(k) + offset, YearEnd(k) + 70, base + k)]
        \o (IF n = 0 THEN << >>
            ELSE << XbrlUnit("10-K/A", 0, YearEnd(1) + offset, YearEnd(1) + 300,
                             base + 100) >>)

Absent == Concept(FALSE, FALSE, << >>)

Has(vals) == Concept(TRUE, TRUE, vals)

\* the us-gaap facts of a filer
Facts(n, ebit, assets, equity) ==
    [ RevenueFromContractWithCustomerExcludingAssessedTax |-> Absent,
      Revenues |-> Has(DurationVals(n, 0, 1, M)),
      SalesRevenueNet |-> Absent,
      OperatingIncomeLoss |-> Has(DurationVals(n, ebit.offset, ebit.step, 3 * M)),
      PaymentsToAcquirePropertyPlantAndEquipment |-> Concept(TRUE, FALSE, << >>),
      PaymentsToAcquireProductiveAssets |-> Has(DurationVals(n, 0, 1, -2 * M)),
      WeightedAverageNumberOfDilutedSharesOutstanding |-> Has(DurationVals(n, 0, 2, 4)),
      CommonStockSharesOutstanding |-> Has(InstantVals(n, 0, "10-K", 5)),
      Assets |-> Has(InstantVals(n, assets.offset, assets.form, 50)),
      StockholdersEquity |->
          IF equity = "primary" THEN Has(InstantVals(n, 0, "10-K", 20))
          ELSE IF equity = "fallback"
          THEN Has([k \in 1..n |-> XbrlUnit("10-K", 0, YearEnd(k), YearEnd(k) + 70, 0)])
          ELSE Has(InstantVals(n, 0, "10-Q", 20)),
      StockholdersEquityIncludingPortionAttributableToNoncontrollingInterest |->
          IF equity = "fallback" THEN Has(InstantVals(n, 0, "20-F", 30))
          ELSE Absent ]

Responses ==
    { [values |-> << >>, ok |-> r.ok, hasGaap |-> r.hasGaap,
       gaap |-> Facts(n, ebit, assets, equity)] :
          r \in {[ok |-> TRUE, hasGaap |-> TRUE], [ok |-> TRUE, hasGaap |-> FALSE],
                 [ok |-> FALSE, hasGaap |-> FALSE]},
          n \in 0..MaxYears,
          ebit \in [offset : {0, Tolerance, Tolerance + 1}, step : {1, 2}],
          assets \in [offset : {0, -InstantWindow, InstantWindow + 1},
                      form : {"10-K", "10-Q"}],
          equity \in {"primary", "fallback", "none"} }

InitFundamentals ==
    /\ NewsIdle
    /\ ValIdle
    /\ CalcIdle
    /\ EngineIdle
    /\ TerminalIdle
    /\ ScenarioIdle
    /\ FetchIdle
    /\ UploadIdle
    /\ AskIdle
    /\ xbrlIn \in Responses
    /\ xbrlOut = NoXbrlOut

ApplyFetchXbrlFundamentals ==
    /\ "fetchXbrlFundamentals" \notin xbrlOut.done
    /\ xbrlOut' = [done |-> {"fetchXbrlFundamentals"}, annual |-> << >>,
                   series |-> << >>, fundamentals |-> XbrlFundamentalsOf(xbrlIn)]
    /\ UNCHANGED xbrlIn
    /\ UNCHANGED <<engineVars, terminalVars, scenarioVars, fetchVars, uploadVars, askVars, calcVars, valVars, newsVars>>

NextFundamentals == ApplyFetchXbrlFundamentals

SpecFundamentals == InitFundamentals /\ [][NextFundamentals]_vars

(***************************************************************************)
(* Claims on the series of fetchXbrlFundamentals.                          *)
(***************************************************************************)
\* the annual entries of the tags' series ending within the tolerance of d
NearDuration(gaap, names, d) ==
    {v \in Range(firstConcept(gaap, names)) : Abs(v.end - d) <= Tolerance}

\* the annual-form instants of any of the tags dated within the window of d
NearInstant(gaap, names, d) ==
    UNION { {v \in Range(gaap[names[t]].vals) :
                /\ isAnnualForm(v.form)
                /\ v.end # 0
                /\ Abs(v.end - d) <= InstantWindow} : t \in 1..Len(names) }

\* x is the value of a data point of near, one nearest to d
MatchesNearest(x, near, d) ==
    \E v \in near : x = v.val /\ \A w \in near : Abs(v.end - d) <= Abs(w.end - d)

\* C29: every series of the fetcher is as long as the master revenue
\* timeline and its value at an index is that of a data point matching the
\* master date of the index, or 0 where no data point matches; the
\* historical arrays share one length of at most 5 and hold the last
\* periods of the series.
C29_SeriesAlignedWithMaster ==
    ("fetchXbrlFundamentals" \in xbrlOut.done /\ ~xbrlOut.fundamentals.null) =>
        LET f == xbrlOut.fundamentals
            dates == f.masterDates
            gaap == xbrlIn.gaap
            n == Len(f.hist.year)
            at(i) == Len(dates) - n + i
        IN  /\ dates = [i \in 1..Len(dates) |-> firstConcept(gaap, RevenueNames)[i].end]
            /\ \A name \in DOMAIN f.vals : Len(f.vals[name]) = Len(dates)
            /\ \A i \in 1..Len(dates) :
                   /\ f.vals.revenue[i] = firstConcept(gaap, RevenueNames)[i].val
                   /\ IF NearDuration(gaap, EbitNames, dates[i]) = {}
                      THEN f.vals.ebit[i] = 0
                      ELSE MatchesNearest(f.vals.ebit[i],
                                          NearDuration(gaap, EbitNames, dates[i]), dates[i])
                   /\ IF NearDuration(gaap, CapexNames, dates[i]) = {}
                      THEN f.vals.capex[i] = 0
                      ELSE MatchesNearest(-f.vals.capex[i],
                                          NearDuration(gaap, CapexNames, dates[i]), dates[i])
                   /\ IF NearDuration(gaap, SharesDilNames, dates[i]) = {}
                      THEN f.vals.shares_diluted[i] = 0
                      ELSE MatchesNearest(f.vals.shares_diluted[i],
                                          NearDuration(gaap, SharesDilNames, dates[i]),
                                          dates[i])
                   /\ \A pair \in {<<"total_assets", AssetsNames>>,
                                   <<"total_equity", EquityNames>>,
                                   <<"shares_inst", SharesInstNames>>} :
                          IF NearInstant(gaap, pair[2], dates[i]) = {}
                          THEN f.vals[pair[1]][i] = 0
                          ELSE \/ f.vals[pair[1]][i] = 0
                               \/ \E v \in NearInstant(gaap, pair[2], dates[i]) :
                                      f.vals[pair[1]][i] = v.val
            /\ n <= HistYears
            /\ n <= Len(dates)
            /\ \A name \in DOMAIN f.hist : Len(f.hist[name]) = n
            /\ \A i \in 1..n :
                   /\ f.hist.year[i] = FullYear(dates[at(i)])
                   /\ f.hist.revenue[i] = Rat(f.vals.revenue[at(i)], M)
                   /\ f.hist.ebit[i] = Rat(f.vals.ebit[at(i)], M)
                   /\ f.hist.capex[i] = Rat(f.vals.capex[at(i)], M)
                   /\ f.hist.bvps[i] = f.vals.bvps[at(i)]

C29_Witness ==
    /\ "fetchXbrlFundamentals" \in xbrlOut.done
    /\ ~xbrlOut.fundamentals.null
    /\ Len(xbrlOut.fundamentals.masterDates) = 6
    /\ xbrlOut.fundamentals.vals.ebit = << 3 * M, 0, 9 * M, 0, 15 * M, 0 >>
    /\ xbrlOut.fundamentals.vals.total_assets = << 0, 0, 0, 0, 0, 0 >>
    /\ xbrlOut.fundamentals.vals.total_equity = << 130, 32, 33, 34, 35, 36 >>
    /\ xbrlOut.fundamentals.hist.ebit = << RZero, Whole(9), RZero, Whole(15), RZero >>
    /\ xbrlOut.fundamentals.hist.year = << 1973, 1974, 1975, 1976, 1977 >>

(***************************************************************************)
(* Session specification: the ticker page of a company mounts the          *)
(* dashboard on the server's config, the provider seeds the assumptions    *)
(* from that config, and the effect of TickerPageClient then prefers the   *)
(* config an earlier upload stored under the ticker; the scenario toggle   *)
(* and the drawer act afterwards.                                          *)
(***************************************************************************)
SessionTicker == << "A", "B" >>

\* a config with its default_assumptions; Empty is a config without them
SessionConfig(name, defaults) ==
    [ticker |-> SessionTicker, hasTicker |-> TRUE, name |-> name,
     default_assumptions |-> defaults]

\* what localStorage holds for the ticker: nothing, or an uploaded config
StoredItems ==
    {NoItems} \cup
    { [k \in {SessionTicker} |-> SessionConfig("Alpha", defaults)] :
          defaults \in InitialProps }

InitSession ==
    /\ NewsIdle
    /\ ValIdle
    /\ CalcIdle
    /\ XbrlIdle
    /\ AskIdle
    /\ EngineIdle
    /\ TerminalIdle
    /\ FetchIdle
    /\ ScenarioIdle
    /\ uploadPanel = [error |-> "", fileName |-> << >>, loading |-> FALSE]
    /\ readers = {}
    /\ \E items \in StoredItems : localStorage = [items |-> items, profiles |-> << >>]
    /\ clock = 0
    /\ route = [path |-> SessionTicker, by |-> NoFile]
    /\ \E defaults \in InitialProps :
           tickerPage = [view |-> "none", ticker |-> SessionTicker,
                         config |-> SessionConfig("Server", defaults),
                         effect |-> FALSE]
    /\ uploadLog = [op |-> "none", file |-> NoFile, at |-> 0]

\* the first render, on the serverConfig prop the page was given:
\* useState(serverConfig) in TickerPageClient, then ValuationDashboard
\* mounts ScenarioProvider with initial = config.default_assumptions, whose
\* useState seeds the assumptions
MountDashboard ==
    /\ tickerPage.view = "none"
    /\ tickerPage' = [tickerPage EXCEPT !.view = "dashboard"]
    /\ initial' = tickerPage.config.default_assumptions
    /\ assumptions' = InitialAssumptions(tickerPage.config.default_assumptions)
    /\ UNCHANGED lastOp
    /\ UNCHANGED <<uploadPanel, readers, localStorage, clock, route, uploadLog>>
    /\ UNCHANGED <<engineVars, terminalVars, fetchVars, askVars, xbrlVars, calcVars, valVars, newsVars>>

\* the effect of TickerPageClient: setConfig(parsed) re-renders
\* ValuationDashboard with the stored config; the mounted provider gets the
\* new initial prop and keeps its state
StoredConfigEffect ==
    /\ tickerPage.view = "dashboard"
    /\ ~tickerPage.effect
    /\ LET key == tickerPage.ticker
           swap == /\ key \in DOMAIN localStorage.items
                   /\ localStorage.items[key].ticker = key
       IN  /\ tickerPage' =
                 [tickerPage EXCEPT
                     !.effect = TRUE,
                     !.config = IF swap THEN localStorage.items[key] ELSE @]
           /\ initial' = IF swap THEN localStorage.items[key].default_assumptions
                         ELSE initial
    /\ UNCHANGED <<assumptions, lastOp>>
    /\ UNCHANGED <<uploadPanel, readers, localStorage, clock, route, uploadLog>>
    /\ UNCHANGED <<engineVars, terminalVars, fetchVars, askVars, xbrlVars, calcVars, valVars, newsVars>>

NextSession ==
    \/ MountDashboard
    \/ StoredConfigEffect
    \/ tickerPage.effect /\ \E s \in ScenarioKeys : applyScenario(s)
    \/ tickerPage.effect /\ Reset
    \/ tickerPage.effect /\
           \E key \in DOMAIN FIELDS : \E value \in FIELDS[key] : setAssumption(key, value)

SpecSession == InitSession /\ [][NextSession]_vars

(***************************************************************************)
(* Claims on the start of a dashboard session.                             *)
(***************************************************************************)
\* the page has rendered, its effect has run, and the user has not acted
SessionStarted ==
    /\ tickerPage.view = "dashboard"
    /\ tickerPage.effect
    /\ lastOp.n = 0

\* C26: at the start of a session the assumptions are the Base preset
\* overlaid with the default assumptions of the displayed config, the label
\* is Base unless the config overrides it, and beta and tax rate are the
\* config's whenever it supplies them.
C26_SeededFromDisplayedConfig ==
    SessionStarted =>
        LET defaults == tickerPage.config.default_assumptions
        IN  /\ \A k \in PresetFields :
                   assumptions[k] = IF k \in DOMAIN defaults THEN defaults[k]
                                    ELSE SCENARIO_PRESETS["Base"][k]
            /\ assumptions["scenario"] =
                   IF "scenario" \in DOMAIN defaults THEN defaults["scenario"]
                   ELSE "Base"
            /\ \A k \in {"beta", "tax_rate"} :
                   k \in DOMAIN defaults => assumptions[k] = defaults[k]
====
